---- MODULE Spec2Model ----
(***************************************************************************)
(* Achievement / milestone rule engine of the learning dashboard           *)
(* (src/achievement_system.py) and the session code that feeds it.         *)
(*                                                                         *)
(* Python values are modelled as follows.                                  *)
(*   dict          a record; a key may be missing, d.get(k, v) is Get      *)
(*   list          a sequence                                              *)
(*   str           a sequence of one-character strings, so that lower(),   *)
(*                 the substring test `kw in name`, strftime and           *)
(*                 fromisoformat are computed, not assumed                 *)
(*   None / value  a sequence of length 0 / 1 (certification scores)       *)
(*   float         an exact fraction <<numerator, denominator>>            *)
(*   IDs, category and status names: TLA+ strings (only compared)          *)
(***************************************************************************)
EXTENDS Integers, Sequences, FiniteSets, TLC

----------------------------------------------------------------------------
(* Generic helpers *)

\* dict.get(k, dflt)
Get(d, k, dflt) == IF k \in DOMAIN d THEN d[k] ELSE dflt

Range(s) == {s[i] : i \in 1..Len(s)}

\* x in list
InList(x, s) == \E i \in 1..Len(s) : s[i] = x

Min2(a, b) == IF a <= b THEN a ELSE b

Max2(a, b) == IF a >= b THEN a ELSE b

\* len([x for x in s if test(x)]), tests being the value of test(x) for each x
CountIf(tests) == Cardinality({i \in DOMAIN tests : tests[i]})

RECURSIVE SumSeq(_)
SumSeq(s) == IF s = <<>> THEN 0 ELSE Head(s) + SumSeq(Tail(s))

NoDuplicates(s) == \A i, j \in 1..Len(s) : s[i] = s[j] => i = j

IsPrefix(s, t) == Len(s) <= Len(t) /\ SubSeq(t, 1, Len(s)) = s

\* Fractions <<n, d>> with d > 0, compared by cross-multiplication.
FracLess(a, b) == a[1] * b[2] < b[1] * a[2]

FracEq(a, b) == a[1] * b[2] = b[1] * a[2]

FracMin(a, b) == IF FracLess(b, a) THEN b ELSE a

FracMax(a, b) == IF FracLess(a, b) THEN b ELSE a

----------------------------------------------------------------------------
(* Strings *)

UpperCase ==
    <<"A","B","C","D","E","F","G","H","I","J","K","L","M",
      "N","O","P","Q","R","S","T","U","V","W","X","Y","Z">>

LowerCase ==
    <<"a","b","c","d","e","f","g","h","i","j","k","l","m",
      "n","o","p","q","r","s","t","u","v","w","x","y","z">>

LowerChar(c) ==
    IF \E i \in 1..Len(UpperCase) : UpperCase[i] = c
    THEN LowerCase[CHOOSE i \in 1..Len(UpperCase) : UpperCase[i] = c]
    ELSE c

\* str.lower()
Lower(s) == [i \in 1..Len(s) |-> LowerChar(s[i])]

\* kw in s  (substring test)
Contains(s, kw) ==
    \E i \in 1..(Len(s) - Len(kw) + 1) :
        \A j \in 1..Len(kw) : s[i + j - 1] = kw[j]

\* any(kw in s for kw in kws)
ContainsAny(s, kws) == \E k \in 1..Len(kws) : Contains(s, kws[k])

\* src/achievement_system.py:402
ml_keywords ==
    << <<"m","a","c","h","i","n","e"," ","l","e","a","r","n","i","n","g">>,
       <<"m","l">>,
       <<"s","u","p","e","r","v","i","s","e","d">>,
       <<"u","n","s","u","p","e","r","v","i","s","e","d">>,
       <<"a","l","g","o","r","i","t","h","m">> >>

\* src/achievement_system.py:415
dl_keywords ==
    << <<"d","e","e","p"," ","l","e","a","r","n","i","n","g">>,
       <<"n","e","u","r","a","l"," ","n","e","t","w","o","r","k">>,
       <<"c","n","n">>,
       <<"r","n","n">>,
       <<"t","r","a","n","s","f","o","r","m","e","r">>,
       <<"t","e","n","s","o","r","f","l","o","w">>,
       <<"p","y","t","o","r","c","h">> >>

\* src/achievement_system.py:428
ds_keywords ==
    << <<"d","a","t","a"," ","s","c","i","e","n","c","e">>,
       <<"a","n","a","l","y","t","i","c","s">>,
       <<"s","t","a","t","i","s","t","i","c","s">>,
       <<"p","a","n","d","a","s">>,
       <<"n","u","m","p","y">>,
       <<"v","i","s","u","a","l","i","z","a","t","i","o","n">> >>

\* The ordered if/elif chain of src/achievement_system.py:447-460:
\* <<area, keywords>> in the order tested.
area_keywords ==
    << <<"ml", << <<"m","a","c","h","i","n","e"," ","l","e","a","r","n","i","n","g">>, <<"m","l">> >> >>,
       <<"dl", << <<"d","e","e","p"," ","l","e","a","r","n","i","n","g">>, <<"n","e","u","r","a","l">> >> >>,
       <<"ds", << <<"d","a","t","a"," ","s","c","i","e","n","c","e">>, <<"a","n","a","l","y","t","i","c","s">> >> >>,
       <<"cv", << <<"c","o","m","p","u","t","e","r"," ","v","i","s","i","o","n">>, <<"c","v">> >> >>,
       <<"nlp", << <<"n","l","p">>, <<"n","a","t","u","r","a","l"," ","l","a","n","g","u","a","g","e">> >> >>,
       <<"robotics", << <<"r","o","b","o","t","i","c","s">> >> >>,
       <<"ethics", << <<"e","t","h","i","c","s">> >> >> >>

----------------------------------------------------------------------------
(* Dates: strftime('%Y-%m-%d') and datetime.fromisoformat *)

DigitChars == <<"0","1","2","3","4","5","6","7","8","9">>

IsDigit(c) == \E i \in 1..Len(DigitChars) : DigitChars[i] = c

DigitVal(c) == (CHOOSE i \in 1..Len(DigitChars) : DigitChars[i] = c) - 1

DigitOf(n) == DigitChars[n + 1]

\* datetime(...).strftime('%Y-%m-%d')
Strftime(y, m, d) ==
    << DigitOf((y \div 1000) % 10), DigitOf((y \div 100) % 10),
       DigitOf((y \div 10) % 10), DigitOf(y % 10), "-",
       DigitOf((m \div 10) % 10), DigitOf(m % 10), "-",
       DigitOf((d \div 10) % 10), DigitOf(d % 10) >>

IsLeap(y) == y % 4 = 0 /\ (y % 100 # 0 \/ y % 400 = 0)

DaysInMonth(y, m) ==
    IF m = 2 THEN (IF IsLeap(y) THEN 29 ELSE 28)
    ELSE IF m \in {4, 6, 9, 11} THEN 30 ELSE 31

RECURSIVE DaysBeforeMonth(_, _)
DaysBeforeMonth(y, m) ==
    IF m = 1 THEN 0 ELSE DaysBeforeMonth(y, m - 1) + DaysInMonth(y, m - 1)

\* date.toordinal(): day 1 is 0001-01-01
ToOrdinal(y, m, d) ==
    LET py == y - 1
    IN  py * 365 + (py \div 4) - (py \div 100) + (py \div 400)
        + DaysBeforeMonth(y, m) + d

\* datetime.fromisoformat(s) for a date string: <<ordinal>> when s is a
\* well-formed YYYY-MM-DD date, <<>> when the call raises ValueError.
fromisoformat(s) ==
    IF /\ Len(s) = 10
       /\ s[5] = "-" /\ s[8] = "-"
       /\ \A i \in {1, 2, 3, 4, 6, 7, 9, 10} : IsDigit(s[i])
    THEN LET y == DigitVal(s[1]) * 1000 + DigitVal(s[2]) * 100
                  + DigitVal(s[3]) * 10 + DigitVal(s[4])
             m == DigitVal(s[6]) * 10 + DigitVal(s[7])
             d == DigitVal(s[9]) * 10 + DigitVal(s[10])
         IN  IF y >= 1 /\ m \in 1..12 /\ d >= 1 /\ d <= DaysInMonth(y, m)
             THEN << ToOrdinal(y, m, d) >>
             ELSE <<>>
    ELSE <<>>

\* date.weekday(): Monday is 0, Sunday is 6
weekday(ordinal) == (ordinal + 6) % 7

----------------------------------------------------------------------------
(* The catalogs (AchievementSystem.__init__).  A Python dict keeps its     *)
(* insertion order, so each catalog is a sequence of entries.  The display *)
(* texts (name, description, badge, unlocks) are only copied through and   *)
(* are left out.                                                           *)

achievement_definitions ==
    << [id |-> "first_login", category |-> "Getting Started", points |-> 10, hidden |-> FALSE],
       [id |-> "profile_complete", category |-> "Getting Started", points |-> 25, hidden |-> FALSE],
       [id |-> "first_course_start", category |-> "Learning", points |-> 20, hidden |-> FALSE],
       [id |-> "first_course_complete", category |-> "Learning", points |-> 50, hidden |-> FALSE],
       [id |-> "course_streak_3", category |-> "Consistency", points |-> 75, hidden |-> FALSE],
       [id |-> "course_streak_7", category |-> "Consistency", points |-> 150, hidden |-> FALSE],
       [id |-> "course_streak_30", category |-> "Consistency", points |-> 500, hidden |-> FALSE],
       [id |-> "ml_specialist", category |-> "Expertise", points |-> 200, hidden |-> FALSE],
       [id |-> "dl_expert", category |-> "Expertise", points |-> 300, hidden |-> FALSE],
       [id |-> "data_scientist", category |-> "Expertise", points |-> 400, hidden |-> FALSE],
       [id |-> "ai_researcher", category |-> "Expertise", points |-> 600, hidden |-> FALSE],
       [id |-> "courses_5", category |-> "Progress", points |-> 100, hidden |-> FALSE],
       [id |-> "courses_10", category |-> "Progress", points |-> 200, hidden |-> FALSE],
       [id |-> "courses_25", category |-> "Progress", points |-> 500, hidden |-> FALSE],
       [id |-> "courses_50", category |-> "Progress", points |-> 1000, hidden |-> FALSE],
       [id |-> "high_scorer", category |-> "Performance", points |-> 250, hidden |-> FALSE],
       [id |-> "perfect_score", category |-> "Performance", points |-> 300, hidden |-> FALSE],
       [id |-> "quick_learner", category |-> "Performance", points |-> 150, hidden |-> FALSE],
       [id |-> "early_bird", category |-> "Special", points |-> 50, hidden |-> FALSE],
       [id |-> "night_owl", category |-> "Special", points |-> 50, hidden |-> FALSE],
       [id |-> "weekend_warrior", category |-> "Special", points |-> 75, hidden |-> FALSE],
       [id |-> "curiosity_driven", category |-> "Special", points |-> 200, hidden |-> FALSE],
       [id |-> "secret_agent", category |-> "Secret", points |-> 100, hidden |-> TRUE],
       [id |-> "time_traveler", category |-> "Secret", points |-> 150, hidden |-> TRUE] >>

milestone_definitions ==
    << [id |-> "beginner_complete",
        requirements |-> [courses_completed |-> 10, min_level |-> "Beginner"],
        rewards |-> [points |-> 300]],
       [id |-> "intermediate_complete",
        requirements |-> [courses_completed |-> 20, min_level |-> "Intermediate", min_avg_score |-> 80],
        rewards |-> [points |-> 600]],
       [id |-> "advanced_complete",
        requirements |-> [courses_completed |-> 30, min_level |-> "Advanced", min_avg_score |-> 85, streak_days |-> 30],
        rewards |-> [points |-> 1000]],
       [id |-> "nsqf_level_5",
        requirements |-> [nsqf_level |-> 5, courses_completed |-> 15, certifications |-> 3],
        rewards |-> [points |-> 400]],
       [id |-> "nsqf_level_6",
        requirements |-> [nsqf_level |-> 6, courses_completed |-> 25, certifications |-> 5, high_scores |-> 10],
        rewards |-> [points |-> 700]],
       [id |-> "nsqf_level_7",
        requirements |-> [nsqf_level |-> 7, courses_completed |-> 35, certifications |-> 8, perfect_scores |-> 5],
        rewards |-> [points |-> 1200]],
       [id |-> "ai_pioneer",
        requirements |-> [ai_courses |-> 20, research_papers |-> 3, innovations |-> 1],
        rewards |-> [points |-> 2000]] >>

\* Mutant: the keys taken last to first
AchievementIds_reversed ==
    [i \in 1..Len(achievement_definitions) |->
        achievement_definitions[Len(achievement_definitions) + 1 - i].id]

\* The catalog's keys, in insertion order
AchievementIds == [i \in 1..Len(achievement_definitions) |-> achievement_definitions[i].id]

MilestoneIds == [i \in 1..Len(milestone_definitions) |-> milestone_definitions[i].id]

\* self.achievement_definitions[ach_id]
AchievementDef(ach_id) ==
    achievement_definitions[CHOOSE i \in 1..Len(achievement_definitions) :
                                achievement_definitions[i].id = ach_id]

\* self.milestone_definitions[mil_id]
MilestoneDef(mil_id) ==
    milestone_definitions[CHOOSE i \in 1..Len(milestone_definitions) :
                              milestone_definitions[i].id = mil_id]

----------------------------------------------------------------------------
(* Snapshot access *)

\* {}
EmptyDict == [k \in {} |-> 0]

\* None and a present value v (certification scores)
None == <<>>

Some(v) == <<v>>

Profile(user_data) == Get(user_data, "profile", EmptyDict)

Progress(user_data) == Get(user_data, "progress", EmptyDict)

Certifications(user_data) == Get(user_data, "certifications", <<>>)

Activities(user_data) == Get(user_data, "activities", <<>>)

\* c.get('score'): None when the key is missing
ScoreOf_nodefault(c) == Get(c, "score", None)

\* c.get('score', 0)
ScoreOf(c) == Get(c, "score", Some(0))

\* c.get('status') == 'Completed'
IsCompleted(c) == Get(c, "status", "") = "Completed"

\* cert.get('course', '').lower()
CourseName(c) == Lower(Get(c, "course", <<>>))

\* bool(profile.get(field)): a missing key, '' and [] are all falsy.  The
\* three text fields are strings, interests is a list.
Truthy(profile, field) ==
    /\ field \in DOMAIN profile
    /\ profile[field] # (IF field = "interests" THEN <<>> ELSE "")

----------------------------------------------------------------------------
(* AchievementSystem: achievement predicates *)

completed_courses(user_data) == Get(Progress(user_data), "completed", 0)

streak(user_data) == Get(Progress(user_data), "streak", 0)

completed_certs(certifications) == CountIf([i \in DOMAIN certifications |-> IsCompleted(certifications[i])])

\* `None >= 90` raises TypeError: the comprehension of line 341 fails on a
\* certification whose score is present and None.
ScoreComparisonRaises(certifications) ==
    \E i \in 1..Len(certifications) : ScoreOf(certifications[i]) = None

high_score_certs(certifications) ==
    CountIf([i \in DOMAIN certifications |->
                LET c == certifications[i] IN ScoreOf(c) # None /\ ScoreOf(c)[1] >= 90])

perfect_score_certs(certifications) ==
    CountIf([i \in DOMAIN certifications |-> ScoreOf(certifications[i]) = Some(100)])

_check_quick_learner(activities) ==
    IF Len(activities) < 3 THEN FALSE
    ELSE LET completed_activities ==
                 SelectSeq(activities, LAMBDA a : Get(a, "action", "") = "Completed")
         IN  IF Len(completed_activities) < 3 THEN FALSE
             ELSE \E i \in 1..(Len(completed_activities) - 2) :
                      LET date1 == fromisoformat(Get(completed_activities[i], "date", <<>>))
                          date3 == fromisoformat(Get(completed_activities[i + 2], "date", <<>>))
                      IN  /\ date1 # <<>>
                          /\ date3 # <<>>
                          /\ date1[1] - date3[1] <= 7

CountKeywordCourses(certifications, keywords) ==
    CountIf([i \in DOMAIN certifications |->
                LET c == certifications[i]
                IN  IsCompleted(c) /\ ContainsAny(CourseName(c), keywords)])

_count_ml_courses(certifications) == CountKeywordCourses(certifications, ml_keywords)

_count_dl_courses(certifications) == CountKeywordCourses(certifications, dl_keywords)

_count_ds_courses(certifications) == CountKeywordCourses(certifications, ds_keywords)

\* The first branch of the if/elif chain that matches, "" when none does
AreaOf(course_name) ==
    IF \E k \in 1..Len(area_keywords) : ContainsAny(course_name, area_keywords[k][2])
    THEN area_keywords[CHOOSE k \in 1..Len(area_keywords) :
             /\ ContainsAny(course_name, area_keywords[k][2])
             /\ \A j \in 1..(k - 1) : ~ContainsAny(course_name, area_keywords[j][2])][1]
    ELSE ""

_count_diverse_interests(certifications) ==
    Cardinality({AreaOf(CourseName(certifications[i])) :
                     i \in {j \in 1..Len(certifications) : IsCompleted(certifications[j])}}
                \ {""})

_check_weekend_activity(activities) ==
    \E i \in 1..Len(activities) :
        LET date_obj == fromisoformat(Get(activities[i], "date", <<>>))
        IN  date_obj # <<>> /\ weekday(date_obj[1]) >= 5

_check_early_activity(activities) == Len(activities) > 5

_check_late_activity(activities) == Len(activities) > 3

\* The criteria_map lambda of achievement_id, called; an ID without an entry
\* gets `lambda: False`.
criteria_map(achievement_id, user_data) ==
    LET profile == Profile(user_data)
        certifications == Certifications(user_data)
        activities == Activities(user_data)
    IN  CASE achievement_id = "first_login" -> TRUE
          [] achievement_id = "profile_complete" ->
                 /\ Truthy(profile, "name")
                 /\ Truthy(profile, "education")
                 /\ Truthy(profile, "experience")
                 /\ Truthy(profile, "interests")
          [] achievement_id = "first_course_start" -> Len(certifications) > 0
          [] achievement_id = "first_course_complete" -> completed_certs(certifications) >= 1
          [] achievement_id = "course_streak_3" -> streak(user_data) >= 3
          [] achievement_id = "course_streak_7" -> streak(user_data) >= 7
          [] achievement_id = "course_streak_30" -> streak(user_data) >= 30
          [] achievement_id = "courses_5" -> completed_courses(user_data) >= 5
          [] achievement_id = "courses_10" -> completed_courses(user_data) >= 10
          [] achievement_id = "courses_25" -> completed_courses(user_data) >= 25
          [] achievement_id = "courses_50" -> completed_courses(user_data) >= 50
          [] achievement_id = "high_scorer" -> high_score_certs(certifications) >= 5
          [] achievement_id = "perfect_score" -> perfect_score_certs(certifications) >= 1
          [] achievement_id = "quick_learner" -> _check_quick_learner(activities)
          [] achievement_id = "ml_specialist" -> _count_ml_courses(certifications) >= 5
          [] achievement_id = "dl_expert" -> _count_dl_courses(certifications) >= 3
          [] achievement_id = "data_scientist" -> _count_ds_courses(certifications) >= 8
          [] achievement_id = "curiosity_driven" -> _count_diverse_interests(certifications) >= 5
          [] achievement_id = "weekend_warrior" -> _check_weekend_activity(activities)
          [] achievement_id = "early_bird" -> _check_early_activity(activities)
          [] achievement_id = "night_owl" -> _check_late_activity(activities)
          [] OTHER -> FALSE

\* Mutant: courses_5 tests `>` instead of `>=`
_check_achievement_criteria_strict5(achievement_id, user_data) ==
    IF achievement_id = "courses_5"
    THEN completed_courses(user_data) > 5
    ELSE criteria_map(achievement_id, user_data)

\* Mutant: course_streak_3 tests `==` instead of `>=`
_check_achievement_criteria_exact3(achievement_id, user_data) ==
    IF achievement_id = "course_streak_3"
    THEN streak(user_data) = 3
    ELSE criteria_map(achievement_id, user_data)

\* The IDs criteria_map has an entry for
CriteriaIds ==
    {"first_login", "profile_complete", "first_course_start", "first_course_complete",
     "course_streak_3", "course_streak_7", "course_streak_30", "courses_5", "courses_10",
     "courses_25", "courses_50", "high_scorer", "perfect_score", "quick_learner",
     "ml_specialist", "dl_expert", "data_scientist", "curiosity_driven",
     "weekend_warrior", "early_bird", "night_owl"}

\* Mutant: an ID without an entry gets `lambda: True`
_check_achievement_criteria_default_true(achievement_id, user_data) ==
    achievement_id \in CriteriaIds => criteria_map(achievement_id, user_data)

_check_achievement_criteria(achievement_id, user_data) ==
    criteria_map(achievement_id, user_data)

\* A call's outcome: the returned list, or the exception that ended it
Returned(value) == [raised |-> FALSE, value |-> value]

Raised == [raised |-> TRUE, value |-> <<>>]

\* Mutant: the loop forgets the `not in current_achievements` test
PendingAchievements_unfiltered(user_data) == AchievementIds

\* The IDs the loop of check_achievements evaluates: those not yet unlocked
PendingAchievements(user_data) ==
    SelectSeq(AchievementIds,
              LAMBDA id : ~InList(id, Get(user_data, "achievements", <<>>)))

\* _check_achievement_criteria computes its score counts before it looks at
\* the ID, so the first pending ID already raises on a None score.
check_achievements(user_data) ==
    IF /\ PendingAchievements(user_data) # <<>>
       /\ ScoreComparisonRaises(Certifications(user_data))
    THEN Raised
    ELSE Returned(SelectSeq(PendingAchievements(user_data),
                            LAMBDA id : _check_achievement_criteria(id, user_data)))

----------------------------------------------------------------------------
(* AchievementSystem: milestones *)

\* [c.get('score', 0) for c in certifications if c.get('score')]
TruthyScores(certifications) ==
    LET kept == SelectSeq(certifications,
                          LAMBDA c : ScoreOf(c) # None /\ ScoreOf(c)[1] # 0)
    IN  [i \in 1..Len(kept) |-> ScoreOf(kept[i])[1]]

\* Mutant: the course threshold is tested with `<=` instead of `<`
_check_milestone_criteria_le(milestone_id, user_data) ==
    LET requirements == MilestoneDef(milestone_id).requirements
    IN  "courses_completed" \in DOMAIN requirements
            => ~(completed_courses(user_data) <= requirements.courses_completed)

_check_milestone_criteria(milestone_id, user_data) ==
    LET requirements == MilestoneDef(milestone_id).requirements
        certifications == Certifications(user_data)
        scores == TruthyScores(certifications)
    IN  /\ "courses_completed" \in DOMAIN requirements
               => ~(completed_courses(user_data) < requirements.courses_completed)
        /\ "certifications" \in DOMAIN requirements
               => ~(completed_certs(certifications) < requirements.certifications)
        /\ "min_avg_score" \in DOMAIN requirements
               => ~(\/ scores = <<>>
                    \/ SumSeq(scores) < requirements.min_avg_score * Len(scores))
        /\ "streak_days" \in DOMAIN requirements
               => ~(streak(user_data) < requirements.streak_days)

check_milestones(user_data) ==
    Returned(SelectSeq(MilestoneIds,
        LAMBDA id : /\ ~InList(id, Get(user_data, "milestones", <<>>))
                    /\ _check_milestone_criteria(id, user_data)))

----------------------------------------------------------------------------
(* AchievementSystem: display data *)

\* Mutant: the level-6 and level-7 bounds are swapped
_calculate_user_level_swapped(total_points) ==
    IF total_points < 100 THEN 1
    ELSE IF total_points < 300 THEN 2
    ELSE IF total_points < 600 THEN 3
    ELSE IF total_points < 1000 THEN 4
    ELSE IF total_points < 1500 THEN 5
    ELSE IF total_points < 4000 THEN 6
    ELSE IF total_points < 2500 THEN 7
    ELSE IF total_points < 6000 THEN 8
    ELSE IF total_points < 9000 THEN 9
    ELSE 10

_calculate_user_level(total_points) ==
    IF total_points < 100 THEN 1
    ELSE IF total_points < 300 THEN 2
    ELSE IF total_points < 600 THEN 3
    ELSE IF total_points < 1000 THEN 4
    ELSE IF total_points < 1500 THEN 5
    ELSE IF total_points < 2500 THEN 6
    ELSE IF total_points < 4000 THEN 7
    ELSE IF total_points < 6000 THEN 8
    ELSE IF total_points < 9000 THEN 9
    ELSE 10

level_thresholds == <<0, 100, 300, 600, 1000, 1500, 2500, 4000, 6000, 9000, 12000>>

\* A percentage as a fraction; level_thresholds[level - 1] of the 0-based
\* Python list is element `level` of the 1-based sequence.
_calculate_level_progress(total_points) ==
    LET level == _calculate_user_level(total_points)
    IN  IF level >= 10 THEN <<100, 1>>
        ELSE LET current_threshold == level_thresholds[level]
                 next_threshold == level_thresholds[level + 1]
                 progress == << (total_points - current_threshold) * 100,
                                next_threshold - current_threshold >>
             IN  FracMax(<<0, 1>>, FracMin(<<100, 1>>, progress))

\* progress_map.get(achievement_id, 0), as a fraction of 100
_calculate_achievement_progress(achievement_id, user_data) ==
    LET completed == completed_courses(user_data)
        certs == completed_certs(Certifications(user_data))
        days == streak(user_data)
        cap(p) == FracMin(p, <<100, 1>>)
    IN  CASE achievement_id = "courses_5" -> cap(<<completed * 100, 5>>)
          [] achievement_id = "courses_10" -> cap(<<completed * 100, 10>>)
          [] achievement_id = "courses_25" -> cap(<<completed * 100, 25>>)
          [] achievement_id = "first_course_complete" -> cap(<<certs * 100, 1>>)
          [] achievement_id = "course_streak_3" -> cap(<<days * 100, 3>>)
          [] achievement_id = "course_streak_7" -> cap(<<days * 100, 7>>)
          [] OTHER -> <<0, 1>>

\* list.sort(key=progress, reverse=True): stable, equal keys keep their order
RECURSIVE SortByProgressDesc(_)
SortByProgressDesc(s) ==
    IF s = <<>> THEN <<>>
    ELSE LET sorted == SortByProgressDesc(SubSeq(s, 1, Len(s) - 1))
             x == s[Len(s)]
             ahead == SelectSeq(sorted, LAMBDA e : ~FracLess(e.progress, x.progress))
             behind == SelectSeq(sorted, LAMBDA e : FracLess(e.progress, x.progress))
         IN  ahead \o <<x>> \o behind

\* Mutant: the list is cut to five without being sorted
_get_next_achievements_unsorted(user_data) ==
    LET current_achievements == Get(user_data, "achievements", <<>>)
        candidates ==
            SelectSeq(achievement_definitions,
                LAMBDA ach : /\ ~InList(ach.id, current_achievements)
                             /\ ~ach.hidden
                             /\ FracLess(<<0, 1>>,
                                    _calculate_achievement_progress(ach.id, user_data)))
        next_achievements ==
            [i \in 1..Len(candidates) |->
                [id |-> candidates[i].id,
                 progress |-> _calculate_achievement_progress(candidates[i].id, user_data),
                 points |-> candidates[i].points]]
    IN  SubSeq(next_achievements, 1, Min2(5, Len(next_achievements)))

_get_next_achievements(user_data) ==
    LET current_achievements == Get(user_data, "achievements", <<>>)
        candidates ==
            SelectSeq(achievement_definitions,
                LAMBDA ach : /\ ~InList(ach.id, current_achievements)
                             /\ ~ach.hidden
                             /\ FracLess(<<0, 1>>,
                                    _calculate_achievement_progress(ach.id, user_data)))
        next_achievements ==
            [i \in 1..Len(candidates) |->
                [id |-> candidates[i].id,
                 progress |-> _calculate_achievement_progress(candidates[i].id, user_data),
                 points |-> candidates[i].points]]
        sorted == SortByProgressDesc(next_achievements)
    IN  SubSeq(sorted, 1, Min2(5, Len(sorted)))

IsAchievementId(id) == InList(id, AchievementIds)

IsMilestoneId(id) == InList(id, MilestoneIds)

\* The keys of categorized_achievements in insertion order: each category
\* at the place of its first unlocked achievement.
RECURSIVE FirstOccurrences(_)
FirstOccurrences(s) ==
    IF s = <<>> THEN <<>>
    ELSE LET init == FirstOccurrences(SubSeq(s, 1, Len(s) - 1))
         IN  IF InList(s[Len(s)], init) THEN init ELSE Append(init, s[Len(s)])

categorize(current_achievements) ==
    LET known == SelectSeq(current_achievements, IsAchievementId)
        categories ==
            FirstOccurrences([i \in 1..Len(known) |-> AchievementDef(known[i]).category])
    IN  [k \in 1..Len(categories) |->
            [category |-> categories[k],
             achievements |->
                 LET members == SelectSeq(known,
                         LAMBDA id : AchievementDef(id).category = categories[k])
                 IN  [i \in 1..Len(members) |->
                         [id |-> members[i], points |-> AchievementDef(members[i]).points]]]]

\* Mutant: an ID missing from the catalog counts 10 points instead of none
achievement_points_default(current_achievements) ==
    SumSeq([i \in 1..Len(current_achievements) |->
               IF IsAchievementId(current_achievements[i])
               THEN AchievementDef(current_achievements[i]).points
               ELSE 10])

achievement_points(current_achievements) ==
    LET known == SelectSeq(current_achievements, IsAchievementId)
    IN  SumSeq([i \in 1..Len(known) |-> AchievementDef(known[i]).points])

milestone_points(current_milestones) ==
    LET known == SelectSeq(current_milestones, IsMilestoneId)
    IN  SumSeq([i \in 1..Len(known) |-> MilestoneDef(known[i]).rewards.points])

\* current_milestones[-3:] filtered by the catalog
recent_milestones(current_milestones) ==
    LET n == Len(current_milestones)
        last3 == SubSeq(current_milestones, Max2(1, n - 2), n)
        known == SelectSeq(last3, IsMilestoneId)
    IN  [i \in 1..Len(known) |->
            [id |-> known[i], points |-> MilestoneDef(known[i]).rewards.points]]

get_achievement_display_data(user_data) ==
    LET current_achievements == Get(user_data, "achievements", <<>>)
        current_milestones == Get(user_data, "milestones", <<>>)
        total_points == achievement_points(current_achievements)
                        + milestone_points(current_milestones)
    IN  [total_achievements |-> Len(current_achievements),
         total_milestones |-> Len(current_milestones),
         total_points |-> total_points,
         categorized_achievements |-> categorize(current_achievements),
         recent_milestones |-> recent_milestones(current_milestones),
         next_achievements |-> _get_next_achievements(user_data),
         level |-> _calculate_user_level(total_points),
         level_progress |-> _calculate_level_progress(total_points)]

----------------------------------------------------------------------------
(* update_user_achievements *)

\* The new IDs put in front of the lists, not after them
ExtendUnlocked_prepending(user_data, new_achievements, new_milestones) ==
    LET achievements == new_achievements \o Get(user_data, "achievements", <<>>)
        milestones == new_milestones \o Get(user_data, "milestones", <<>>)
    IN  [k \in DOMAIN user_data \cup {"achievements", "milestones"} |->
            IF k = "achievements" THEN achievements
            ELSE IF k = "milestones" THEN milestones
            ELSE user_data[k]]

\* user_data after lines 675-681: the two lists exist and the new IDs are
\* appended to them.
ExtendUnlocked(user_data, new_achievements, new_milestones) ==
    LET achievements == Get(user_data, "achievements", <<>>) \o new_achievements
        milestones == Get(user_data, "milestones", <<>>) \o new_milestones
    IN  [k \in DOMAIN user_data \cup {"achievements", "milestones"} |->
            IF k = "achievements" THEN achievements
            ELSE IF k = "milestones" THEN milestones
            ELSE user_data[k]]

\* Mutant: the display data is computed before the new IDs are appended
update_user_achievements_display_first(user_data) ==
    LET new_achievements == check_achievements(user_data)
        new_milestones == check_milestones(user_data)
        updated == ExtendUnlocked(user_data, new_achievements.value, new_milestones.value)
    IN  IF new_achievements.raised
        THEN << user_data, Raised >>
        ELSE << updated,
                Returned([new_achievements |-> new_achievements.value,
                          new_milestones |-> new_milestones.value,
                          display_data |-> get_achievement_display_data(user_data)]) >>

\* <<user_data afterwards, outcome>>.  check_achievements runs first: when
\* it raises, nothing has been written yet.
update_user_achievements(user_data) ==
    LET new_achievements == check_achievements(user_data)
        new_milestones == check_milestones(user_data)
        updated == ExtendUnlocked(user_data, new_achievements.value, new_milestones.value)
    IN  IF new_achievements.raised
        THEN << user_data, Raised >>
        ELSE << updated,
                Returned([new_achievements |-> new_achievements.value,
                          new_milestones |-> new_milestones.value,
                          display_data |-> get_achievement_display_data(updated)]) >>

----------------------------------------------------------------------------
(* Natural numbers of any size: little-endian sequences of limbs in        *)
(* 0..LimbBase-1 without leading zero limbs, <<>> being 0.  They carry the  *)
(* 53-bit significands of Python floats and their 106-bit products.        *)

LimbBits == 15

LimbBase == 32768

Pow2(n) == 2^n

\* The element of a set of one element.  Only({e : a \in {x}}) is e with a
\* standing for the value of x: the operands of an operation are values
\* before the operation starts, as they are in Python.
Only(S) == CHOOSE v \in S : TRUE

\* The place of the highest limb of a that is not 0; 0 when there is none
BigTop(a) ==
    CHOOSE i \in 0..Len(a) : (i = 0 \/ a[i] # 0) /\ \A j \in (i + 1)..Len(a) : a[j] = 0

\* a without leading zero limbs
BigNorm(a) == SubSeq(a, 1, BigTop(a))

RECURSIVE BigFromInt(_)
BigFromInt(n) ==
    IF n = 0 THEN <<>> ELSE <<n % LimbBase>> \o BigFromInt(n \div LimbBase)

RECURSIVE BigToInt(_)
BigToInt(a) == IF a = <<>> THEN 0 ELSE a[1] + LimbBase * BigToInt(Tail(a))

Limb(a, i) == IF 1 <= i /\ i <= Len(a) THEN a[i] ELSE 0

\* The carry into limb i of a + b: a lower pair of limbs overflows and every
\* pair between it and i adds up to LimbBase - 1
AddCarry(a, b, i) ==
    IF \E j \in 1..(i - 1) :
           /\ Limb(a, j) + Limb(b, j) >= LimbBase
           /\ \A k \in (j + 1)..(i - 1) : Limb(a, k) + Limb(b, k) = LimbBase - 1
    THEN 1 ELSE 0

BigAdd(a, b) ==
    BigNorm([i \in 1..(Max2(Len(a), Len(b)) + 1) |->
                (Limb(a, i) + Limb(b, i) + AddCarry(a, b, i)) % LimbBase])

\* The borrow from limb i of a - b: a lower limb of a is less than that of b
\* and every pair between it and i is equal
SubBorrow(a, b, i) ==
    IF \E j \in 1..(i - 1) :
           /\ a[j] < Limb(b, j)
           /\ \A k \in (j + 1)..(i - 1) : a[k] = Limb(b, k)
    THEN 1 ELSE 0

\* a - b for a >= b
BigSub(a, b) ==
    BigNorm([i \in 1..Len(a) |->
                (a[i] - Limb(b, i) - SubBorrow(a, b, i)) % LimbBase])

RECURSIVE BigMulSmallFrom(_, _, _, _)
BigMulSmallFrom(a, k, i, carry) ==
    IF i > Len(a)
    THEN IF carry = 0 THEN <<>> ELSE <<carry>>
    ELSE LET t == a[i] * k + carry
         IN  <<t % LimbBase>> \o BigMulSmallFrom(a, k, i + 1, t \div LimbBase)

\* a * k for 0 <= k <= LimbBase
BigMulSmall(a, k) == IF k = 0 THEN <<>> ELSE BigMulSmallFrom(a, k, 1, 0)

\* a * LimbBase^n
BigShiftLimbs(a, n) == IF a = <<>> THEN <<>> ELSE [i \in 1..n |-> 0] \o a

\* a times the limbs lo..hi of b at their places, by halves
RECURSIVE BigMulRange(_, _, _, _)
BigMulRange(a, b, lo, hi) ==
    IF lo = hi THEN BigShiftLimbs(BigMulSmall(a, b[lo]), lo - 1)
    ELSE Only({BigAdd(x, y) :
                  x \in {BigMulRange(a, b, lo, (lo + hi) \div 2)},
                  y \in {BigMulRange(a, b, ((lo + hi) \div 2) + 1, hi)}})

\* The shorter factor is the one multiplied limb by limb
BigMul(a, b) ==
    IF a = <<>> \/ b = <<>> THEN <<>>
    ELSE IF Len(a) <= Len(b) THEN BigMulRange(a, b, 1, Len(b))
    ELSE BigMulRange(b, a, 1, Len(a))

RECURSIVE BigDivSmallFrom(_, _, _, _)
BigDivSmallFrom(a, k, i, rem) ==
    IF i = 0 THEN <<<<>>, rem>>
    ELSE LET t == rem * LimbBase + a[i]
             rest == BigDivSmallFrom(a, k, i - 1, t % k)
         IN  <<rest[1] \o <<t \div k>>, rest[2]>>

\* <<a div k, a mod k>> for 0 < k < LimbBase
BigDivSmall(a, k) ==
    LET r == BigDivSmallFrom(a, k, Len(a), 0) IN <<BigNorm(r[1]), r[2]>>

\* The highest place at which a and b of one length differ
BigDiffer(a, b) ==
    CHOOSE i \in 1..Len(a) : a[i] # b[i] /\ \A j \in (i + 1)..Len(a) : a[j] = b[j]

BigCmpAt(a, b, i) == IF a[i] < b[i] THEN -1 ELSE 1

\* -1, 0, 1 as a < b, a = b, a > b
BigCmp(a, b) ==
    IF Len(a) < Len(b) THEN -1
    ELSE IF Len(a) > Len(b) THEN 1
    ELSE IF \A i \in 1..Len(a) : a[i] = b[i] THEN 0
    ELSE BigCmpAt(a, b, BigDiffer(a, b))

\* a * 2^r for 0 <= r < LimbBits: every limb takes the low bits of its own
\* and the high bits of the limb below
BigShlBits(a, r) ==
    BigNorm([i \in 1..(Len(a) + 1) |->
                ((Limb(a, i) * Pow2(r)) % LimbBase)
                    + (Limb(a, i - 1) \div Pow2(LimbBits - r))])

\* a * 2^n
BigShl(a, n) == BigShiftLimbs(BigShlBits(a, n % LimbBits), n \div LimbBits)

\* a div 2^r for 0 <= r < LimbBits
BigShrBits(a, r) ==
    BigNorm([i \in 1..Len(a) |->
                (a[i] \div Pow2(r)) + ((Limb(a, i + 1) % Pow2(r)) * Pow2(LimbBits - r))])

\* a div 2^n
BigShr(a, n) ==
    IF n \div LimbBits >= Len(a) THEN <<>>
    ELSE BigShrBits(SubSeq(a, (n \div LimbBits) + 1, Len(a)), n % LimbBits)

\* The number of bits of a limb: of the powers of two, those that are <= n
IntBitLength(n) == Cardinality({k \in 0..(LimbBits - 1) : Pow2(k) <= n})

BitLength(a) ==
    IF a = <<>> THEN 0 ELSE LimbBits * (Len(a) - 1) + IntBitLength(a[Len(a)])

IsOdd(a) == a # <<>> /\ a[1] % 2 = 1

\* q or q + 1, where withGuard is a div 2^(n-1) and q is a div 2^n: q + 1
\* when the bit cut off last is set and either a lower bit of a is set or q
\* is odd
BigRoundHalfEven(a, n, withGuard, q) ==
    IF IsOdd(withGuard) /\ (BigCmp(BigShl(withGuard, n - 1), a) # 0 \/ IsOdd(q))
    THEN BigAdd(q, <<1>>) ELSE q

BigRoundGuarded(a, n, withGuard) == BigRoundHalfEven(a, n, withGuard, BigShr(withGuard, 1))

\* a / 2^n rounded to the nearest integer, a tie to the even one
BigShrRound(a, n) ==
    IF n <= 0 THEN BigShl(a, 0 - n) ELSE BigRoundGuarded(a, n, BigShr(a, n - 1))

\* An upper estimate of the next digit of rem / b from the two top limbs of
\* rem and the top limb of b, for rem < b * LimbBase: at most 2 too large
\* when the top limb of b is at least LimbBase / 2
BigDigitEstimate(rem, b) ==
    Min2((Limb(rem, Len(b) + 1) * LimbBase + Limb(rem, Len(b))) \div b[Len(b)],
         LimbBase - 1)

\* The digit d with d * b <= rem < (d + 1) * b
BigDigitNear(rem, b, estimate) ==
    CHOOSE d \in Max2(estimate - 2, 0)..estimate :
        /\ BigCmp(BigMulSmall(b, d), rem) <= 0
        /\ BigCmp(rem, BigMulSmall(b, d + 1)) < 0

RECURSIVE BigDivScaledFrom(_, _, _, _)

\* The digit d taken: the last one ends the division, any other leaves the
\* remainder times LimbBase to the next
BigDivTake(rem, b, n, digits, d) ==
    IF n = 0
    THEN <<BigNorm(<<d>> \o digits), BigSub(rem, BigMulSmall(b, d))>>
    ELSE BigDivScaledFrom(BigShiftLimbs(BigSub(rem, BigMulSmall(b, d)), 1), b, n - 1,
                          <<d>> \o digits)

\* Long division with n digits still to come after the next one; digits
\* holds those found so far, the lowest first
BigDivScaledFrom(rem, b, n, digits) ==
    BigDivTake(rem, b, n, digits, BigDigitNear(rem, b, BigDigitEstimate(rem, b)))

\* <<q, r>> with x * LimbBase^n = q * b + r and r < b, for x < b * LimbBase
\* and b with its top limb at least LimbBase / 2
BigDivScaled(x, b, n) == BigDivScaledFrom(x, b, n, <<>>)

\* a^n by squaring: a^n is the square of a^(n div 2), times a when n is odd
RECURSIVE BigPow(_, _)
BigPow(a, n) ==
    IF n = 0 THEN <<1>>
    ELSE IF n = 1 THEN a
    ELSE Only({BigMul(BigMul(h, h), IF n % 2 = 1 THEN a ELSE <<1>>) :
                  h \in {BigPow(a, n \div 2)}})

----------------------------------------------------------------------------
(* Python floats: IEEE 754 binary64, restricted to zero and the positive    *)
(* normal numbers, which is all the predictor computes with.  A float is   *)
(* [m, e] with value m * 2^e, m = 0 or 2^52 <= m < 2^53; every operation    *)
(* rounds to nearest, ties to even.                                        *)

MantissaBits == 53

FloatZero == [m |-> <<>>, e |-> 0]

\* [m, e] for m of at most MantissaBits + 1 bits; a carry out of the
\* rounding leaves m = 2^MantissaBits, which is halved exactly
FloatNormal(m, e) ==
    IF BitLength(m) > MantissaBits
    THEN [m |-> BigShr(m, 1), e |-> e + 1]
    ELSE [m |-> m, e |-> e]

FloatRounded(n, e, excess) == FloatNormal(BigShrRound(n, excess), e + excess)

\* The float nearest to n * 2^e
RoundToFloat(n, e) ==
    IF n = <<>> THEN FloatZero ELSE FloatRounded(n, e, BitLength(n) - MantissaBits)

FloatFromInt(n) == RoundToFloat(BigFromInt(n), 0)

GuardBits == 70

\* The float of a quotient and remainder <<q, r>> at GuardBits binary places
FloatFromQuotient(qr) ==
    RoundToFloat(BigAdd(BigShl(qr[1], 1), IF qr[2] = 0 THEN <<>> ELSE <<1>>),
                 0 - (GuardBits + 1))

\* The float a decimal literal n/d denotes (0 < d < LimbBase): n/d is
\* carried to GuardBits binary places, a remainder kept as a last odd bit.
FloatLit(n, d) == FloatFromQuotient(BigDivSmall(BigShl(BigFromInt(n), GuardBits), d))

MinExponent(x, y) == IF x.e <= y.e THEN x.e ELSE y.e

\* x.m and y.m scaled to the exponent e, the smaller of the two
AlignedAt(x, y, e) == [x |-> BigShl(x.m, x.e - e), y |-> BigShl(y.m, y.e - e), e |-> e]

Aligned(x, y) == AlignedAt(x, y, MinExponent(x, y))

FloatSum(a) == RoundToFloat(BigAdd(a.x, a.y), a.e)

FloatAdd(x, y) == Only({FloatSum(Aligned(a, b)) : a \in {x}, b \in {y}})

FloatMul(x, y) ==
    Only({RoundToFloat(BigMul(a.m, b.m), a.e + b.e) : a \in {x}, b \in {y}})

AlignedCmp(a) == BigCmp(a.x, a.y)

FloatCmp(x, y) == Only({AlignedCmp(Aligned(a, b)) : a \in {x}, b \in {y}})

FloatLess(x, y) == FloatCmp(x, y) < 0

FloatLeq(x, y) == FloatCmp(x, y) <= 0

\* Python's min(x, y): y unless x < y
FloatMin(x, y) == IF FloatLess(x, y) THEN x ELSE y

FloatDifference(a) == RoundToFloat(BigSub(a.x, a.y), a.e)

\* x - y for x >= y
FloatSub(x, y) == Only({FloatDifference(Aligned(a, b)) : a \in {x}, b \in {y}})

\* The bits to shift a divisor by so that its top limb has LimbBits bits
DivisorShift(m) == (LimbBits - (BitLength(m) % LimbBits)) % LimbBits

\* The limbs a quotient is carried to below the point: one more than a
\* significand fills
GuardLimbs == (MantissaBits \div LimbBits) + 1

\* The float of a quotient and remainder <<q, r>> of a division carried to
\* GuardLimbs limbs, a remainder kept as a last odd bit
FloatFromDivision(qr, e) ==
    RoundToFloat(BigAdd(BigShl(qr[1], 1), IF qr[2] = <<>> THEN <<>> ELSE <<1>>),
                 e - (GuardLimbs * LimbBits + 1))

FloatQuotient(x, y, shift) ==
    FloatFromDivision(BigDivScaled(BigShl(x.m, shift), BigShl(y.m, shift), GuardLimbs),
                      x.e - y.e)

\* x / y for y > 0
FloatDiv(x, y) ==
    Only({FloatQuotient(a, b, DivisorShift(b.m)) : a \in {x}, b \in {y}})

\* x ** n for an int n >= 0: the float nearest to the exact power
FloatPow(x, n) == Only({RoundToFloat(BigPow(a.m, n), a.e * n) : a \in {x}})

\* int(x * 10) in place of round(x, 1): the tenths cut off, not rounded
RoundTenths_truncating(x) ==
    Only({BigToInt(BigShr(BigMulSmall(a.m, 10), 0 - a.e)) : a \in {x}})

\* round(x, 1) in tenths: the exact value of x times 10, rounded to the
\* nearest integer, a tie to the even one
RoundTenths(x) ==
    Only({BigToInt(BigShrRound(BigMulSmall(a.m, 10), 0 - a.e)) : a \in {x}})

----------------------------------------------------------------------------
(* str methods used on the salary_range literals (src/salary_predictor.py) *)

\* s.find(sub) + 1: the first position sub occurs at, 0 if it does not
IndexOf(s, sub) ==
    LET hits == {i \in 1..(Len(s) - Len(sub) + 1) : SubSeq(s, i, i + Len(sub) - 1) = sub}
    IN  IF hits = {} THEN 0 ELSE CHOOSE i \in hits : \A j \in hits : i <= j

\* s.split(sep)
RECURSIVE Split(_, _)
Split(s, sep) ==
    LET i == IndexOf(s, sep)
    IN  IF i = 0 THEN <<s>>
        ELSE <<SubSeq(s, 1, i - 1)>> \o Split(SubSeq(s, i + Len(sep), Len(s)), sep)

RECURSIVE Concat(_)
Concat(parts) == IF parts = <<>> THEN <<>> ELSE Head(parts) \o Concat(Tail(parts))

\* s.replace(old, '')
Remove(s, old) == Concat(Split(s, old))

\* s.strip(), the whitespace being blanks
RECURSIVE Strip(_)
Strip(s) ==
    IF s = <<>> THEN s
    ELSE IF Head(s) = " " THEN Strip(Tail(s))
    ELSE IF s[Len(s)] = " " THEN Strip(SubSeq(s, 1, Len(s) - 1))
    ELSE s

\* s.isdigit()
IsDigitString(s) == s # <<>> /\ \A i \in 1..Len(s) : IsDigit(s[i])

RECURSIVE DigitsValue(_)
DigitsValue(s) ==
    IF s = <<>> THEN 0 ELSE 10 * DigitsValue(SubSeq(s, 1, Len(s) - 1)) + DigitVal(s[Len(s)])

RECURSIVE Pow10(_)
Pow10(n) == IF n = 0 THEN 1 ELSE 10 * Pow10(n - 1)

\* float(s) for the plain decimal numerals 'ddd' and 'ddd.ddd': Some(value),
\* and None where float() raises ValueError (every other string is taken to
\* raise; signs, exponents and underscores do not occur in NSQF_DATA).
ParseFloat(s) ==
    LET parts == Split(s, <<".">>)
        digits == Concat(parts)
    IN  IF Len(parts) <= 2 /\ IsDigitString(digits)
        THEN Some(FloatLit(DigitsValue(digits),
                           IF Len(parts) = 2 THEN Pow10(Len(parts[2])) ELSE 1))
        ELSE None

----------------------------------------------------------------------------
(* src/nsqf.py *)

Rupee == "₹"

\* NSQF_DATA[level]['salary_range'], the one field the predictor parses
NSQF_DATA ==
    [level \in 4..8 |->
        [level |-> level,
         job_roles |->
            CASE level = 4 -> <<"Junior Data Entry Operator", "Computer Operator",
                                "Basic Data Analyst", "IT Support Technician">>
              [] level = 5 -> <<"Data Analyst", "Junior Software Developer",
                                "Database Administrator", "Business Intelligence Analyst">>
              [] level = 6 -> <<"Data Scientist", "Machine Learning Engineer",
                                "Software Developer", "Systems Analyst", "Product Analyst">>
              [] level = 7 -> <<"Senior Data Scientist", "ML Research Engineer",
                                "AI Solutions Architect", "Lead Data Engineer",
                                "Technical Product Manager">>
              [] level = 8 -> <<"Principal Data Scientist", "AI Research Director",
                                "Chief Technology Officer", "AI Consultant",
                                "University Professor/Researcher">>,
         salary_range |->
            CASE level = 4 -> <<Rupee, "2", "-", "4", " ", "L", "P", "A">>
              [] level = 5 -> <<Rupee, "3", "-", "6", " ", "L", "P", "A">>
              [] level = 6 -> <<Rupee, "5", "-", "1", "0", " ", "L", "P", "A">>
              [] level = 7 -> <<Rupee, "8", "-", "1", "8", " ", "L", "P", "A">>
              [] level = 8 -> <<Rupee, "1", "5", "-", "3", "0", "+", " ", "L", "P", "A">>]]

EDUCATION_TO_NSQF ==
    ("High School" :> 4) @@ ("Diploma" :> 5) @@ ("Bachelor's" :> 6)
        @@ ("Master's" :> 7) @@ ("PhD" :> 8)

\* A default of level 5
get_nsqf_level_by_education_diploma(education) == Get(EDUCATION_TO_NSQF, education, 5)

get_nsqf_level_by_education(education) == Get(EDUCATION_TO_NSQF, education, 6)

----------------------------------------------------------------------------
(* src/salary_predictor.py: SalaryPredictor *)

LPA == <<"L", "P", "A">>

\* x / 2 and x * 1.5 as floats
FloatHalf(x) == IF x.m = <<>> THEN x ELSE [m |-> x.m, e |-> x.e - 1]

\* The fallback entry of lines 46-52
FallbackSalaryData(level) ==
    [min_salary |-> FloatAdd(FloatLit(5, 1), FloatFromInt((level - 4) * 3)),
     max_salary |-> FloatAdd(FloatLit(10, 1), FloatFromInt((level - 4) * 5)),
     avg_salary |-> FloatAdd(FloatLit(75, 10), FloatFromInt((level - 4) * 4))]

\* One pass of the loop of lines 23-52: Some(entry) for the level, or None
\* when the literal has no rupee sign or no dash and the level is left out.
SalaryDataOf(level) ==
    LET salary_range == NSQF_DATA[level].salary_range
    IN  IF ~(Contains(salary_range, <<Rupee>>) /\ Contains(salary_range, <<"-">>))
        THEN None
        ELSE LET parts == Split(Split(salary_range, <<Rupee>>)[2], <<"-">>)
                 min_parsed == ParseFloat(Strip(Remove(parts[1], LPA)))
             IN  IF min_parsed = None THEN Some(FallbackSalaryData(level))
                 ELSE LET min_sal == min_parsed[1]
                          max_sal_str ==
                              IF Len(parts) > 1
                              THEN Strip(Remove(Remove(parts[2], LPA), <<"+">>))
                              ELSE <<>>
                          max_sal ==
                              IF Len(parts) > 1 /\ IsDigitString(Remove(max_sal_str, <<".">>))
                              THEN ParseFloat(max_sal_str)
                              ELSE Some(FloatMul(min_sal, FloatLit(15, 10)))
                      IN  IF max_sal = None THEN Some(FallbackSalaryData(level))
                          ELSE Some([min_salary |-> min_sal,
                                     max_salary |-> max_sal[1],
                                     avg_salary |-> FloatHalf(FloatAdd(min_sal, max_sal[1]))])

_initialize_salary_data ==
    [level \in {l \in DOMAIN NSQF_DATA : SalaryDataOf(l) # None} |-> SalaryDataOf(level)[1]]

_initialize_growth_factors ==
    [experience_multiplier |->
        ("Beginner (0-1 years)" :> FloatLit(85, 100))
        @@ ("Intermediate (2-4 years)" :> FloatLit(10, 10))
        @@ ("Advanced (5+ years)" :> FloatLit(135, 100)),
     skill_bonuses |->
        ("Machine Learning" :> FloatLit(15, 100))
        @@ ("Deep Learning" :> FloatLit(25, 100))
        @@ ("Natural Language Processing" :> FloatLit(20, 100))
        @@ ("Computer Vision" :> FloatLit(20, 100))
        @@ ("Data Science" :> FloatLit(10, 100))
        @@ ("Robotics" :> FloatLit(30, 100))
        @@ ("AI Ethics" :> FloatLit(5, 100))
        @@ ("MLOps" :> FloatLit(18, 100)),
     location_multipliers |->
        ("Bangalore" :> FloatLit(12, 10))
        @@ ("Mumbai" :> FloatLit(115, 100))
        @@ ("Delhi" :> FloatLit(11, 10))
        @@ ("Hyderabad" :> FloatLit(105, 100))
        @@ ("Chennai" :> FloatLit(10, 10))
        @@ ("Pune" :> FloatLit(95, 100))
        @@ ("Other Metro" :> FloatLit(85, 100))
        @@ ("Tier 2 Cities" :> FloatLit(7, 10)),
     company_size_multipliers |->
        ("Startup (1-50)" :> FloatLit(8, 10))
        @@ ("Small (51-200)" :> FloatLit(9, 10))
        @@ ("Medium (201-1000)" :> FloatLit(10, 10))
        @@ ("Large (1001-5000)" :> FloatLit(12, 10))
        @@ ("Enterprise (5000+)" :> FloatLit(14, 10))]

\* Mutant: the premium of the Advanced tier is a discount of 30%
_initialize_market_trends_saturated ==
    [annual_growth_rate |-> FloatLit(18, 100),
     market_saturation |->
        ("Beginner (0-1 years)" :> FloatLit(8, 10))
        @@ ("Intermediate (2-4 years)" :> FloatLit(11, 10))
        @@ ("Advanced (5+ years)" :> FloatLit(7, 10))]

\* market_saturation, the one table of market_trends predict_current_salary reads
_initialize_market_trends ==
    [annual_growth_rate |-> FloatLit(18, 100),
     market_saturation |->
        ("Beginner (0-1 years)" :> FloatLit(8, 10))
        @@ ("Intermediate (2-4 years)" :> FloatLit(11, 10))
        @@ ("Advanced (5+ years)" :> FloatLit(13, 10))]

\* SalaryPredictor(): the instance's three attributes
SalaryPredictor ==
    [base_salary_data |-> _initialize_salary_data,
     growth_factors |-> _initialize_growth_factors,
     market_trends |-> _initialize_market_trends]

\* The float literals of predict_current_salary and _calculate_confidence
DEFAULT_MULTIPLIER == FloatLit(1, 1)

\* A cap of 60%
SKILL_BONUS_CAP_high == FloatLit(6, 10)

SKILL_BONUS_CAP == FloatLit(5, 10)

\* A lower end only 2% under the prediction
RANGE_MIN_FACTOR_narrow == FloatLit(98, 100)

RANGE_MIN_FACTOR == FloatLit(8, 10)

RANGE_MAX_FACTOR == FloatLit(13, 10)

FLOAT_ONE == FloatFromInt(1)

FLOAT_HUNDRED == FloatFromInt(100)

BASE_CONFIDENCE == FloatLit(7, 10)

CONFIDENCE_STEP == FloatLit(1, 10)

CONFIDENCE_PER_INTEREST == FloatLit(2, 100)

MAX_CONFIDENCE == FloatLit(95, 100)

\* _calculate_confidence returning `confidence` without the final min
_calculate_confidence_uncapped(nsqf_level, experience, interests) ==
    LET level_added ==
            IF 5 <= nsqf_level /\ nsqf_level <= 7
            THEN FloatAdd(BASE_CONFIDENCE, CONFIDENCE_STEP) ELSE BASE_CONFIDENCE
        experience_added ==
            IF experience \in {"Intermediate (2-4 years)", "Advanced (5+ years)"}
            THEN FloatAdd(level_added, CONFIDENCE_STEP) ELSE level_added
    IN  FloatAdd(experience_added,
                 FloatMin(FloatMul(FloatFromInt(Len(interests)), CONFIDENCE_PER_INTEREST),
                          CONFIDENCE_STEP))

_calculate_confidence(nsqf_level, experience, interests) ==
    LET level_added ==
            IF 5 <= nsqf_level /\ nsqf_level <= 7
            THEN FloatAdd(BASE_CONFIDENCE, CONFIDENCE_STEP) ELSE BASE_CONFIDENCE
        experience_added ==
            IF experience \in {"Intermediate (2-4 years)", "Advanced (5+ years)"}
            THEN FloatAdd(level_added, CONFIDENCE_STEP) ELSE level_added
        confidence ==
            FloatAdd(experience_added,
                     FloatMin(FloatMul(FloatFromInt(Len(interests)), CONFIDENCE_PER_INTEREST),
                              CONFIDENCE_STEP))
    IN  FloatMin(confidence, MAX_CONFIDENCE)

\* The loop of lines 132-134
RECURSIVE SumSkillBonuses(_, _, _)
SumSkillBonuses(skill_bonuses, interests, skill_bonus) ==
    IF interests = <<>> THEN skill_bonus
    ELSE SumSkillBonuses(skill_bonuses, Tail(interests),
                         FloatAdd(skill_bonus, Get(skill_bonuses, Head(interests), FloatZero)))

\* The returned dict.  A value passed through round(v, 1) is given in tenths
\* (61 for 6.1), every other float as it is.
predict_current_salary(self, education, experience, interests, location, company_size) ==
    LET nsqf_level == get_nsqf_level_by_education(education)
        base_data == Get(self.base_salary_data, nsqf_level, self.base_salary_data[6])
        base_salary == base_data.avg_salary
        exp_multiplier ==
            Get(self.growth_factors.experience_multiplier, experience, DEFAULT_MULTIPLIER)
        skill_bonus ==
            FloatMin(SumSkillBonuses(self.growth_factors.skill_bonuses, interests, FloatZero),
                     SKILL_BONUS_CAP)
        location_multiplier ==
            Get(self.growth_factors.location_multipliers, location, DEFAULT_MULTIPLIER)
        company_multiplier ==
            Get(self.growth_factors.company_size_multipliers, company_size, DEFAULT_MULTIPLIER)
        market_multiplier ==
            Get(self.market_trends.market_saturation, experience, DEFAULT_MULTIPLIER)
        predicted_salary ==
            FloatMul(FloatMul(FloatMul(FloatMul(FloatMul(base_salary, exp_multiplier),
                                                FloatAdd(FLOAT_ONE, skill_bonus)),
                                       location_multiplier),
                              company_multiplier),
                     market_multiplier)
    IN  [predicted_salary |-> RoundTenths(predicted_salary),
         salary_range |->
            [min |-> RoundTenths(FloatMul(predicted_salary, RANGE_MIN_FACTOR)),
             max |-> RoundTenths(FloatMul(predicted_salary, RANGE_MAX_FACTOR)),
             median |-> RoundTenths(predicted_salary)],
         factors |->
            [base_salary |-> RoundTenths(base_salary),
             experience_factor |-> exp_multiplier,
             skill_bonus |-> RoundTenths(FloatMul(skill_bonus, FLOAT_HUNDRED)),
             location_factor |-> location_multiplier,
             company_factor |-> company_multiplier,
             market_factor |-> market_multiplier],
         nsqf_level |-> nsqf_level,
         confidence |-> _calculate_confidence(nsqf_level, experience, interests)]

----------------------------------------------------------------------------
(* predict_career_progression (src/salary_predictor.py:171-230)             *)

\* The first level of NSQF_DATA, in the order of its keys, that lists
\* target_role among its job roles; current_nsqf when no level does
RECURSIVE target_nsqf_from(_, _, _)
target_nsqf_from(target_role, level, current_nsqf) ==
    IF level \notin DOMAIN NSQF_DATA THEN current_nsqf
    ELSE IF InList(target_role, NSQF_DATA[level].job_roles) THEN level
    ELSE target_nsqf_from(target_role, level + 1, current_nsqf)

FIRST_NSQF_LEVEL == 4

\* 0.2, the bonus of each level gained
NSQF_BONUS_PER_LEVEL == FloatLit(2, 10)

\* The level of the entry of a year: the year // 2 levels gained since year
\* 0, never past the target
nsqf_level_of_year(year, current_nsqf, target_nsqf) ==
    IF year = 0 THEN current_nsqf
    ELSE Min2(current_nsqf + (year \div 2), target_nsqf)

exp_level_of_year(year, current_experience) ==
    IF year = 0 THEN current_experience
    ELSE IF year <= 2 THEN "Intermediate (2-4 years)"
    ELSE "Advanced (5+ years)"

\* (1 + annual_growth) ** year
growth_factor(annual_growth, year) == FloatPow(FloatAdd(FLOAT_ONE, annual_growth), year)

nsqf_bonus(nsqf_level, current_nsqf) ==
    IF nsqf_level > current_nsqf
    THEN FloatMul(FloatFromInt(nsqf_level - current_nsqf), NSQF_BONUS_PER_LEVEL)
    ELSE FloatZero

projected_salary(current_salary, annual_growth, year, nsqf_level, current_nsqf) ==
    FloatMul(FloatMul(current_salary, growth_factor(annual_growth, year)),
             FloatAdd(FLOAT_ONE, nsqf_bonus(nsqf_level, current_nsqf)))

\* The dict appended for a year; salary and growth_rate in tenths
ProgressionEntry(year, nsqf_level, current_experience, current_nsqf, current_salary, annual_growth) ==
    [year |-> year,
     salary |-> RoundTenths(projected_salary(current_salary, annual_growth, year,
                                             nsqf_level, current_nsqf)),
     nsqf_level |-> nsqf_level,
     experience_level |-> exp_level_of_year(year, current_experience),
     growth_rate |->
        IF year > 0 THEN RoundTenths(FloatMul(annual_growth, FLOAT_HUNDRED)) ELSE 0]

\* The entries the loop over range(years_ahead + 1) has appended when the
\* one of year is in; current_salary is the float round(.., 1) returned, the
\* one nearest to the tenths
RECURSIVE ProgressionUpTo(_, _, _, _, _, _)
ProgressionUpTo(year, current_experience, current_nsqf, target_nsqf, current_salary, annual_growth) ==
    IF year < 0 THEN <<>>
    ELSE Append(ProgressionUpTo(year - 1, current_experience, current_nsqf, target_nsqf,
                                current_salary, annual_growth),
                ProgressionEntry(year, nsqf_level_of_year(year, current_nsqf, target_nsqf),
                                 current_experience, current_nsqf, current_salary,
                                 annual_growth))

ProgressionList(years_ahead, current_experience, current_nsqf, target_nsqf, current_salary, annual_growth) ==
    ProgressionUpTo(years_ahead, current_experience, current_nsqf, target_nsqf,
                    current_salary, annual_growth)

\* The year of the first entry whose level is at least target_nsqf
RECURSIVE FindTargetFrom(_, _, _)
FindTargetFrom(progression, target_nsqf, i) ==
    IF i > Len(progression) THEN None
    ELSE IF progression[i].nsqf_level >= target_nsqf THEN Some(progression[i].year)
    ELSE FindTargetFrom(progression, target_nsqf, i + 1)

_find_target_achievement_year_last(progression, target_nsqf) ==
    IF progression # <<>> /\ progression[Len(progression)].nsqf_level >= target_nsqf
    THEN Some(progression[Len(progression)].year)
    ELSE None

_find_target_achievement_year(progression, target_nsqf) ==
    FindTargetFrom(progression, target_nsqf, 1)

\* round(((last - first) / first) * 100, 1) in tenths, first and last being
\* the floats of two salaries given in tenths
total_growth_from_last(first, last) ==
    RoundTenths(FloatMul(FloatDiv(FloatSub(FloatLit(last, 10), FloatLit(first, 10)),
                                  FloatLit(last, 10)),
                         FLOAT_HUNDRED))

total_growth(first, last) ==
    RoundTenths(FloatMul(FloatDiv(FloatSub(FloatLit(last, 10), FloatLit(first, 10)),
                                  FloatLit(first, 10)),
                         FLOAT_HUNDRED))

ProgressionResult(progression, target_nsqf, annual_growth) ==
    IF progression = <<>> \/ progression[1].salary = 0
    THEN Raised
    ELSE Returned(
        [progression |-> progression,
         target_achieved_year |-> _find_target_achievement_year(progression, target_nsqf),
         total_growth |-> total_growth(progression[1].salary,
                                       progression[Len(progression)].salary),
         annual_avg_growth |-> RoundTenths(FloatMul(annual_growth, FLOAT_HUNDRED))])

ProgressionTowards(self, current_experience, years_ahead, current_nsqf, target_nsqf, current_prediction) ==
    ProgressionResult(
        ProgressionList(years_ahead, current_experience, current_nsqf, target_nsqf,
                        FloatLit(current_prediction.predicted_salary, 10),
                        self.market_trends.annual_growth_rate),
        target_nsqf, self.market_trends.annual_growth_rate)

\* The outcome of the call: an empty progression (years_ahead < 0) raises at
\* progression[-1], a year-0 salary of 0 at the division.  current_prediction
\* is computed before the loop starts.
predict_career_progression(self, current_education, current_experience, target_role, years_ahead) ==
    Only({ProgressionTowards(
              self, current_experience, years_ahead,
              get_nsqf_level_by_education(current_education),
              target_nsqf_from(target_role, FIRST_NSQF_LEVEL,
                               get_nsqf_level_by_education(current_education)),
              current_prediction) :
          current_prediction \in
              {predict_current_salary(self, current_education, current_experience, <<>>,
                                      "Bangalore", "Medium (201-1000)")}})

----------------------------------------------------------------------------
(* Bounds and input sets *)

\* Longest certification / activity list drawn element by element
MaxCerts == 3

MaxActivities == 3

\* Longest list made of one repeated certification / activity
MaxRepeat == 10

\* Longest already-unlocked list drawn element by element
MaxUnlocked == 2

\* Highest point total the level ladder is evaluated at
MaxPoints == 12000

\* Longest list of dated activities
MaxDated == 5

\* Longest interests list drawn element by element
MaxInterests == 2

\* Most SalaryPredictor instances constructed in one session
MaxPredictors == 2

SeqsUpTo(S, n) == UNION {[1..k -> S] : k \in 0..n}

Repeats(S, n) == {[i \in 1..k |-> x] : x \in S, k \in 0..n}

\* Every numeric threshold of the two catalogs, with the value just below
CompletedValues ==
    {0, 3} \cup UNION {{t - 1, t} : t \in {5, 10, 15, 20, 25, 30, 35, 50}}

StreakValues == {0} \cup UNION {{t - 1, t} : t \in {3, 7, 30}}

\* Each counter runs over its values against the lowest and the highest
\* value of the other one
ProgressDicts ==
    {EmptyDict}
    \cup {[completed |-> c, streak |-> s] : c \in CompletedValues, s \in {0, 30}}
    \cup {[completed |-> c, streak |-> s] : c \in {0, 50}, s \in StreakValues}

BaseProgress == [completed |-> 0, streak |-> 0]

HighProgress == [completed |-> 50, streak |-> 30]

Profiles ==
    [name : {"", "Asha"},
     education : {"", "Bachelor's"},
     experience : {"", "Beginner (0-1 years)"},
     interests : {<<>>, <<"Machine Learning", "Data Science">>}]

EmptyProfile == [name |-> "", education |-> "", experience |-> "", interests |-> <<>>]

FullProfile ==
    [name |-> "Asha", education |-> "Bachelor's",
     experience |-> "Beginner (0-1 years)",
     interests |-> <<"Machine Learning", "Data Science">>]

MachineLearningBasics ==
    [course |-> <<"M","a","c","h","i","n","e"," ","L","e","a","r","n","i","n","g"," ","B","a","s","i","c","s">>,
     status |-> "Completed", score |-> Some(100)]

DeepLearning101 ==
    [course |-> <<"D","e","e","p"," ","L","e","a","r","n","i","n","g"," ","1","0","1">>,
     status |-> "Completed", score |-> Some(85)]

\* No score key: c.get('score', 0) is 0
DataScienceIntro ==
    [course |-> <<"D","a","t","a"," ","S","c","i","e","n","c","e"," ","I","n","t","r","o">>,
     status |-> "Completed"]

\* 'ml' is a substring of 'html'
HtmlInProgress ==
    [course |-> <<"H","T","M","L"," ","B","a","s","i","c","s">>,
     status |-> "In Progress", score |-> Some(95)]

\* A course as the Certifications page adds it (src/pages/3_Certifications.py:104-111)
NotStartedCourse ==
    [course |-> <<"A","I"," ","E","t","h","i","c","s">>,
     status |-> "Not Started", score |-> None]

CertKinds ==
    {MachineLearningBasics, DeepLearning101, DataScienceIntro, HtmlInProgress,
     NotStartedCourse}

CertLists == SeqsUpTo(CertKinds, MaxCerts) \cup Repeats(CertKinds, MaxRepeat)

\* The three certifications of the spec's milestone example
ThreeCompleted == <<MachineLearningBasics, DeepLearning101, DataScienceIntro>>

NotADate == <<"y","e","s","t","e","r","d","a","y">>

\* 2024-01-01 is a Monday, 2024-01-06 a Saturday, 2024-01-07 a Sunday
ActivityKinds ==
    {[action |-> "Completed", date |-> Strftime(2024, 1, 1)],
     [action |-> "Completed", date |-> Strftime(2024, 1, 6)],
     [action |-> "Completed", date |-> Strftime(2024, 1, 20)],
     [action |-> "Completed", date |-> NotADate],
     [action |-> "Started", date |-> Strftime(2024, 1, 7)],
     [action |-> "Started"]}

ActivityLists == SeqsUpTo(ActivityKinds, MaxActivities) \cup Repeats(ActivityKinds, MaxRepeat)

\* IDs the already-unlocked lists are built from; "legacy_badge" is in no catalog
AchievementPool == {"first_login", "profile_complete", "courses_5", "course_streak_3", "legacy_badge"}

MilestonePool == {"beginner_complete", "nsqf_level_5", "ai_pioneer", "legacy_badge"}

AchievementLists == SeqsUpTo(AchievementPool, MaxUnlocked) \cup {AchievementIds}

\* The long lists have more than the three entries recent_milestones shows
MilestoneLists ==
    SeqsUpTo(MilestonePool, MaxUnlocked)
    \cup {MilestoneIds,
          <<"ai_pioneer", "legacy_badge", "beginner_complete", "nsqf_level_5">>,
          <<"beginner_complete", "ai_pioneer", "nsqf_level_5", "legacy_badge">>}

\* <<achievements, milestones>>: each list varies against an empty other one
UnlockedPairs ==
    {<<a, <<>>>> : a \in AchievementLists} \cup {<<<<>>, m>> : m \in MilestoneLists}
    \cup {<<AchievementIds, MilestoneIds>>, <<<<"first_login">>, <<"ai_pioneer">>>>}

FewUnlockedPairs ==
    {<<<<>>, <<>>>>, <<<<"first_login">>, <<"ai_pioneer">>>>,
     <<<<"legacy_badge", "courses_5">>, <<"nsqf_level_5">>>>}

Snapshot(profile, progress, certifications, activities, unlocked) ==
    [profile |-> profile, progress |-> progress,
     certifications |-> certifications, activities |-> activities,
     achievements |-> unlocked[1], milestones |-> unlocked[2]]

\* The snapshots the engine is evaluated on: four families, each the full
\* product of the parts it varies.
ProfileSnapshots ==
    {Snapshot(p, BaseProgress, c, <<>>, u) :
        p \in Profiles, c \in {<<>>, <<NotStartedCourse>>}, u \in UnlockedPairs}

ProgressSnapshots ==
    {Snapshot(p, g, c, <<>>, u) :
        p \in {EmptyProfile}, g \in ProgressDicts, c \in {<<>>, ThreeCompleted},
        u \in UnlockedPairs}

CertificationSnapshots ==
    {Snapshot(p, g, c, <<>>, u) :
        p \in {EmptyProfile}, g \in {BaseProgress, HighProgress}, c \in CertLists,
        u \in FewUnlockedPairs}

ActivitySnapshots ==
    {Snapshot(p, BaseProgress, <<>>, a, u) :
        p \in {EmptyProfile, FullProfile}, a \in ActivityLists, u \in FewUnlockedPairs}

Snapshots ==
    ProfileSnapshots \cup ProgressSnapshots \cup CertificationSnapshots
    \cup ActivitySnapshots

\* d without the keys outside keys, and every dict obtained from d that way
SubDict(d, keys) == [k \in DOMAIN d \cap keys |-> d[k]]

SubDicts(d) == {SubDict(d, keys) : keys \in SUBSET DOMAIN d}

\* Three completions within one week, two of them on a weekend
WeekOfCompletions ==
    <<[action |-> "Completed", date |-> Strftime(2024, 1, 1)],
      [action |-> "Completed", date |-> Strftime(2024, 1, 6)],
      [action |-> "Completed", date |-> Strftime(2024, 1, 7)]>>

\* A snapshot with every field present, and none of them None
RichSnapshot ==
    Snapshot(FullProfile, HighProgress, ThreeCompleted, WeekOfCompletions,
             <<<<"first_login">>, <<"ai_pioneer">>>>)

\* Snapshots with fields absent: any of the six top-level keys, any field of
\* the profile, of the progress, of a certification, of an activity
SparseSnapshots ==
    SubDicts(RichSnapshot)
    \cup {[RichSnapshot EXCEPT !.profile = p] : p \in SubDicts(FullProfile)}
    \cup {[RichSnapshot EXCEPT !.progress = g] : g \in SubDicts(HighProgress)}
    \cup {[RichSnapshot EXCEPT !.certifications = <<c, d>>] :
              c \in SubDicts(MachineLearningBasics), d \in SubDicts(DeepLearning101)}
    \cup {[RichSnapshot EXCEPT !.activities = <<a, b, c>>] :
              a \in SubDicts(WeekOfCompletions[1]), b \in SubDicts(WeekOfCompletions[2]),
              c \in SubDicts(WeekOfCompletions[3])}

\* 2024-01-01 and 2024-01-08 are Mondays a week apart, 2024-01-20 is a
\* Saturday, 2024-02-20 a Tuesday; two completions have no usable date
DatedActivityKinds ==
    {[action |-> "Completed", date |-> Strftime(2024, 1, 1)],
     [action |-> "Completed", date |-> Strftime(2024, 1, 8)],
     [action |-> "Completed", date |-> Strftime(2024, 1, 20)],
     [action |-> "Completed", date |-> Strftime(2024, 2, 20)],
     [action |-> "Completed", date |-> NotADate],
     [action |-> "Completed"],
     [action |-> "Started", date |-> Strftime(2024, 1, 7)]}

\* The activities in any stored order
DatedActivityLists == SeqsUpTo(DatedActivityKinds, MaxDated)

----------------------------------------------------------------------------
(* Inputs of predict_current_salary *)

\* The choices of the page's select boxes (src/pages/5_Salary_Predictor.py:28-61)
Educations == <<"High School", "Diploma", "Bachelor's", "Master's", "PhD">>

Experiences == <<"Beginner (0-1 years)", "Intermediate (2-4 years)", "Advanced (5+ years)">>

KnownInterests ==
    <<"Machine Learning", "Deep Learning", "Natural Language Processing",
      "Computer Vision", "Data Science", "Robotics", "AI Ethics", "MLOps">>

Locations ==
    <<"Bangalore", "Mumbai", "Delhi", "Hyderabad", "Chennai", "Pune", "Other Metro",
      "Tier 2 Cities">>

CompanySizes ==
    <<"Startup (1-50)", "Small (51-200)", "Medium (201-1000)", "Large (1001-5000)",
      "Enterprise (5000+)">>

\* Values no table has an entry for
UnknownEducation == "Bootcamp"

UnknownExperience == "Expert (10+ years)"

UnknownInterest == "Quantum Computing"

UnknownLocation == "Remote"

UnknownCompanySize == "Freelance"

\* The known interests in s, in the order of the multiselect
RECURSIVE InterestsIn(_, _)
InterestsIn(s, i) ==
    IF i > Len(KnownInterests) THEN <<>>
    ELSE (IF KnownInterests[i] \in s THEN <<KnownInterests[i]>> ELSE <<>>)
             \o InterestsIn(s, i + 1)

\* What the multiselect can deliver: every subset of the known interests
InterestSelections == {InterestsIn(s, 1) : s \in SUBSET Range(KnownInterests)}

\* Lists a direct caller can pass: any order, repeats, unknown interests
InterestLists ==
    SeqsUpTo(Range(KnownInterests) \cup {UnknownInterest}, MaxInterests)
    \cup Repeats(Range(KnownInterests) \cup {UnknownInterest}, MaxRepeat)

SalaryArgs(education, experience, interests, location, company_size) ==
    [education |-> education, experience |-> experience, interests |-> interests,
     location |-> location, company_size |-> company_size]

\* Known and unknown values of the four categorical inputs, with no interest
\* and with all of them
CategoricalSalaryInputs ==
    {SalaryArgs(ed, ex, i, l, c) :
        ed \in Range(Educations) \cup {UnknownEducation},
        ex \in Range(Experiences) \cup {UnknownExperience},
        i \in {<<>>, KnownInterests},
        l \in Range(Locations) \cup {UnknownLocation},
        c \in Range(CompanySizes) \cup {UnknownCompanySize}}

\* Every interests list against the lowest and the highest entry of each table
InterestSalaryInputs ==
    {SalaryArgs(ed, ex, i, l, c) :
        ed \in {"High School", "PhD", UnknownEducation},
        ex \in {"Beginner (0-1 years)", "Advanced (5+ years)"},
        i \in InterestLists \cup InterestSelections,
        l \in {"Bangalore", "Tier 2 Cities"},
        c \in {"Startup (1-50)", "Enterprise (5000+)"}}

SalaryInputs == CategoricalSalaryInputs \cup InterestSalaryInputs

\* min(sum of the bonuses, 0.5), the one value through which the interests
\* enter the predicted salary (lines 132-135, 147)
CappedBonus(interests) ==
    FloatMin(SumSkillBonuses(SalaryPredictor.growth_factors.skill_bonuses, interests,
                             FloatZero),
             SKILL_BONUS_CAP)

\* One selection for each capped bonus a selection can have
BonusRepresentatives ==
    {CHOOSE s \in InterestSelections : CappedBonus(s) = b :
        b \in {CappedBonus(s) : s \in InterestSelections}}

\* Every combination of table-valid inputs, the 256 selections of interests
\* being represented by one selection for each bonus they can add up to
ValidSalaryInputs ==
    {SalaryArgs(ed, ex, i, l, c) :
        ed \in Range(Educations),
        ex \in Range(Experiences),
        i \in BonusRepresentatives,
        l \in Range(Locations),
        c \in Range(CompanySizes)}

----------------------------------------------------------------------------
(* State *)

VARIABLES
    user_data,      \* the caller's snapshot
    result,         \* the latest call: its name and its outcome
    total_points,   \* the argument of the level functions
    predictors,     \* the SalaryPredictor instances constructed so far
    prediction,     \* the latest predict_current_salary call
    earlier         \* a predict_current_salary call made before the latest one

salary_vars == <<predictors, prediction, earlier>>

vars == <<user_data, result, total_points, predictors, prediction, earlier>>

NoResult == [op |-> "none", outcome |-> Returned(<<>>)]

\* No predict_current_salary call was made
NoPrediction == [called |-> FALSE]

\* The predictor is not in use
NoSalary ==
    /\ predictors = <<>>
    /\ prediction = NoPrediction
    /\ earlier = NoPrediction

\* The page's snapshot of a new session before anything was unlocked
\* (src/pages/6_Achievements.py:19-31)
NewSession == Snapshot(EmptyProfile, EmptyDict, <<>>, <<>>, <<<<>>, <<>>>>)

----------------------------------------------------------------------------
(* The engine's three read-only operations, each applied to a drawn snapshot *)

InitSnapshot ==
    /\ user_data \in Snapshots
    /\ result = NoResult
    /\ total_points = 0
    /\ NoSalary

CheckAchievements ==
    /\ result.op = "none"
    /\ result' = [op |-> "check_achievements", outcome |-> check_achievements(user_data)]
    /\ UNCHANGED <<user_data, total_points, salary_vars>>

CheckMilestones ==
    /\ result.op = "none"
    /\ result' = [op |-> "check_milestones", outcome |-> check_milestones(user_data)]
    /\ UNCHANGED <<user_data, total_points, salary_vars>>

GetAchievementDisplayData ==
    /\ result.op = "none"
    /\ result' = [op |-> "get_achievement_display_data",
                  outcome |-> Returned(get_achievement_display_data(user_data))]
    /\ UNCHANGED <<user_data, total_points, salary_vars>>

NextSnapshot == CheckAchievements \/ CheckMilestones \/ GetAchievementDisplayData

SpecSnapshot == InitSnapshot /\ [][NextSnapshot]_vars

\* The same three operations on snapshots with absent fields
InitSparse ==
    /\ user_data \in SparseSnapshots
    /\ result = NoResult
    /\ total_points = 0
    /\ NoSalary

SpecSparse == InitSparse /\ [][NextSnapshot]_vars

----------------------------------------------------------------------------
(* A session: the caller edits its snapshot and calls update_user_achievements *)

SessionProfiles == {EmptyProfile, FullProfile}

SessionProgress ==
    {EmptyDict, [completed |-> 5, streak |-> 3], [completed |-> 10, streak |-> 0]}

SessionCertifications == {<<>>, <<MachineLearningBasics>>, <<NotStartedCourse>>}

\* Four activities on a Saturday
SessionActivities ==
    {<<>>, [i \in 1..4 |-> [action |-> "Started", date |-> Strftime(2024, 1, 6)]]}

\* Lists a session starts with: nothing, or IDs granted earlier (one of them
\* a hidden achievement only the caller can grant)
SessionUnlocked ==
    {<<<<>>, <<>>>>, <<<<"secret_agent", "first_login">>, <<"ai_pioneer">>>>}

Init ==
    /\ user_data \in {Snapshot(EmptyProfile, EmptyDict, <<>>, <<>>, u) : u \in SessionUnlocked}
    /\ result = NoResult
    /\ total_points = 0
    /\ NoSalary

Edited == [op |-> "edit", outcome |-> Returned(<<>>)]

EditProfile ==
    \E p \in SessionProfiles :
        /\ p # user_data.profile
        /\ user_data' = [user_data EXCEPT !.profile = p]
        /\ result' = Edited
        /\ UNCHANGED <<total_points, salary_vars>>

EditProgress ==
    \E g \in SessionProgress :
        /\ g # user_data.progress
        /\ user_data' = [user_data EXCEPT !.progress = g]
        /\ result' = Edited
        /\ UNCHANGED <<total_points, salary_vars>>

EditCertifications ==
    \E c \in SessionCertifications :
        /\ c # user_data.certifications
        /\ user_data' = [user_data EXCEPT !.certifications = c]
        /\ result' = Edited
        /\ UNCHANGED <<total_points, salary_vars>>

EditActivities ==
    \E a \in SessionActivities :
        /\ a # user_data.activities
        /\ user_data' = [user_data EXCEPT !.activities = a]
        /\ result' = Edited
        /\ UNCHANGED <<total_points, salary_vars>>

UpdateUserAchievements ==
    LET call == update_user_achievements(user_data)
    IN  /\ user_data' = call[1]
        /\ result' = [op |-> "update_user_achievements", outcome |-> call[2]]
        /\ UNCHANGED <<total_points, salary_vars>>

Next ==
    \/ EditProfile
    \/ EditProgress
    \/ EditCertifications
    \/ EditActivities
    \/ UpdateUserAchievements

Spec == Init /\ [][Next]_vars

----------------------------------------------------------------------------
(* check_achievements on snapshots that differ in their activities only *)

InitActivities ==
    /\ user_data \in {Snapshot(EmptyProfile, BaseProgress, <<>>, a, <<<<>>, <<>>>>) :
                          a \in DatedActivityLists}
    /\ result = NoResult
    /\ total_points = 0
    /\ NoSalary

NextActivities == CheckAchievements

SpecActivities == InitActivities /\ [][NextActivities]_vars

----------------------------------------------------------------------------
(* All four entry points, each called on a snapshot the caller holds *)

FrameSnapshots ==
    SparseSnapshots
    \cup {Snapshot(p, g, c, a, u) :
              p \in SessionProfiles, g \in SessionProgress, c \in SessionCertifications,
              a \in SessionActivities, u \in SessionUnlocked}

InitFrame ==
    /\ user_data \in FrameSnapshots
    /\ result = NoResult
    /\ total_points = 0
    /\ NoSalary

NextFrame == NextSnapshot \/ UpdateUserAchievements

SpecFrame == InitFrame /\ [][NextFrame]_vars

----------------------------------------------------------------------------
(* The level functions applied to growing point totals *)

\* One point, or the points of one catalog entry
PointSteps ==
    {1} \cup {achievement_definitions[i].points : i \in 1..Len(achievement_definitions)}
        \cup {milestone_definitions[i].rewards.points : i \in 1..Len(milestone_definitions)}

LevelOutcome(points) ==
    Returned([level |-> _calculate_user_level(points),
              level_progress |-> _calculate_level_progress(points)])

InitLevel ==
    /\ user_data = NewSession
    /\ total_points = 0
    /\ result = [op |-> "calculate_level", outcome |-> LevelOutcome(0)]
    /\ NoSalary

CalculateLevel ==
    \E d \in PointSteps :
        /\ total_points + d <= MaxPoints
        /\ total_points' = total_points + d
        /\ result' = [op |-> "calculate_level", outcome |-> LevelOutcome(total_points + d)]
        /\ UNCHANGED <<user_data, salary_vars>>

NextLevel == CalculateLevel

SpecLevel == InitLevel /\ [][NextLevel]_vars

----------------------------------------------------------------------------
(* predict_current_salary applied to a drawn input *)

Prediction(i, args) ==
    [called |-> TRUE, predictor |-> i, args |-> args,
     value |-> predict_current_salary(predictors[i], args.education, args.experience,
                                      args.interests, args.location, args.company_size)]

\* The call is about to be made: its arguments are fixed, it has no value yet
Pending(args) == [called |-> FALSE, args |-> args]

SalaryIdle ==
    /\ user_data = NewSession
    /\ result = NoResult
    /\ total_points = 0

InitSalary ==
    /\ SalaryIdle
    /\ predictors = <<SalaryPredictor>>
    /\ prediction \in {Pending(args) : args \in SalaryInputs}
    /\ earlier = NoPrediction

PredictDrawn ==
    /\ ~prediction.called
    /\ prediction' = Prediction(1, prediction.args)
    /\ UNCHANGED <<predictors, earlier, user_data, result, total_points>>

NextSalary == PredictDrawn

SpecSalary == InitSalary /\ [][NextSalary]_vars

\* The same call, drawn from the table-valid inputs only
InitValidSalary ==
    /\ SalaryIdle
    /\ predictors = <<SalaryPredictor>>
    /\ prediction \in {Pending(args) : args \in ValidSalaryInputs}
    /\ earlier = NoPrediction

SpecValidSalary == InitValidSalary /\ [][NextSalary]_vars

----------------------------------------------------------------------------
(* A session of the predictor: instances are constructed and called in any  *)
(* order                                                                   *)

SessionSalaryInputs ==
    {SalaryArgs(ed, "Beginner (0-1 years)", i, "Bangalore", "Medium (201-1000)") :
        ed \in {"Bachelor's", UnknownEducation},
        i \in {<<>>, <<"Deep Learning">>, <<"Robotics", "Deep Learning", "MLOps">>}}

InitPredictor ==
    /\ SalaryIdle
    /\ predictors = <<SalaryPredictor>>
    /\ prediction = NoPrediction
    /\ earlier = NoPrediction

\* predictor = SalaryPredictor() (src/pages/5_Salary_Predictor.py:68)
Construct ==
    /\ Len(predictors) < MaxPredictors
    /\ predictors' = Append(predictors, SalaryPredictor)
    /\ UNCHANGED <<prediction, earlier, user_data, result, total_points>>

\* predict_current_salary as it would be if it adjusted the instance's
\* market table on every call
PredictCurrentSalary_writing ==
    \E i \in 1..Len(predictors), args \in SessionSalaryInputs :
        /\ prediction' = Prediction(i, args)
        /\ earlier' \in {earlier, prediction}
        /\ predictors' =
               [predictors EXCEPT
                   ![i].market_trends.market_saturation[args.experience] = FloatHalf(@)]
        /\ UNCHANGED <<user_data, result, total_points>>

\* A call on one of the instances; the observer keeps the call it remembered
\* or remembers the one that was the latest.  No attribute of the instance
\* is assigned by the call.
PredictCurrentSalary ==
    \E i \in 1..Len(predictors), args \in SessionSalaryInputs :
        /\ prediction' = Prediction(i, args)
        /\ earlier' \in {earlier, prediction}
        /\ UNCHANGED <<predictors, user_data, result, total_points>>

NextPredictor == Construct \/ PredictCurrentSalary

SpecPredictor == InitPredictor /\ [][NextPredictor]_vars

----------------------------------------------------------------------------
(* predict_career_progression applied to a drawn input *)

\* The largest years_ahead drawn; the default of the parameter is 5
MaxYearsAhead == 5

\* The first job role of every level, the role the dashboard passes
\* (src/salary_predictor.py:357) and a role no level lists
DashboardRole == ""

UnknownRole == "Astronaut"

TargetRoles ==
    {NSQF_DATA[level].job_roles[1] : level \in DOMAIN NSQF_DATA}
        \cup {DashboardRole, UnknownRole}

ProgressionArgs(current_education, current_experience, target_role, years_ahead) ==
    [current_education |-> current_education, current_experience |-> current_experience,
     target_role |-> target_role, years_ahead |-> years_ahead]

\* years_ahead from -1, for which range(years_ahead + 1) is empty
ProgressionInputs ==
    {ProgressionArgs(ed, ex, role, years) :
        ed \in Range(Educations) \cup {UnknownEducation},
        ex \in Range(Experiences) \cup {UnknownExperience},
        role \in TargetRoles,
        years \in (-1)..MaxYearsAhead}

Progression(i, args) ==
    [called |-> TRUE, predictor |-> i, args |-> args,
     outcome |-> predict_career_progression(predictors[i], args.current_education,
                                            args.current_experience, args.target_role,
                                            args.years_ahead)]

InitProgression ==
    /\ SalaryIdle
    /\ predictors = <<SalaryPredictor>>
    /\ prediction \in {Pending(args) : args \in ProgressionInputs}
    /\ earlier = NoPrediction

PredictCareerProgression ==
    /\ ~prediction.called
    /\ prediction' = Progression(1, prediction.args)
    /\ UNCHANGED <<predictors, earlier, user_data, result, total_points>>

NextProgression == PredictCareerProgression

SpecProgression == InitProgression /\ [][NextProgression]_vars

----------------------------------------------------------------------------
(* Several callers at once: each runs update_user_achievements on its own  *)
(* snapshot or predict_current_salary on the predictor, statement by       *)
(* statement, the statements of different callers interleaved in any order *)

MaxCallers == 2

Callers == 1..MaxCallers

\* AchievementSystem(): the instance's two attributes
AchievementSystem ==
    [achievement_definitions |-> achievement_definitions,
     milestone_definitions |-> milestone_definitions]

\* An empty dict, the page's new session, a snapshot with much to unlock
\* and one whose certification has no score
ConcurrentSnapshots ==
    {EmptyDict, NewSession, RichSnapshot,
     Snapshot(FullProfile, HighProgress, <<NotStartedCourse>>, <<>>, <<<<>>, <<>>>>)}

ConcurrentSalaryInputs ==
    {SalaryArgs(ed, "Beginner (0-1 years)", <<"Robotics", "Deep Learning", "MLOps">>,
                "Bangalore", "Medium (201-1000)") :
        ed \in {"Bachelor's", UnknownEducation}}

\* The frame of a call: its position, what it was called with and its local
\* variables
UpdateFrame(start) ==
    [op |-> "update_user_achievements", pc |-> "called", start |-> start,
     achievement_system |-> None, new_achievements |-> <<>>, new_milestones |-> <<>>,
     outcome |-> None]

PredictFrame(args) ==
    [op |-> "predict_current_salary", pc |-> "called", start |-> args, outcome |-> None]

ConcurrentFrames ==
    {UpdateFrame(u) : u \in ConcurrentSnapshots}
        \cup {PredictFrame(args) : args \in ConcurrentSalaryInputs}

\* The snapshot the checks of caller c read, as it would be if the engine
\* kept the dict of the first caller
SnapshotOf_first(c) == 1

\* user_data, the parameter of the call: the caller's own snapshot
SnapshotOf(c) == c

InitConcurrent ==
    /\ result \in [Callers -> ConcurrentFrames]
    /\ user_data =
           [c \in Callers |->
               IF result[c].op = "update_user_achievements" THEN result[c].start
               ELSE NewSession]
    /\ predictors = <<SalaryPredictor>>
    /\ prediction = NoPrediction
    /\ earlier = NoPrediction
    /\ total_points = 0

At(c, op, pc) == result[c].op = op /\ result[c].pc = pc

\* achievement_system = AchievementSystem() (line 668)
ConstructSystem(c) ==
    /\ At(c, "update_user_achievements", "called")
    /\ result' = [result EXCEPT ![c].achievement_system = Some(AchievementSystem),
                                ![c].pc = "constructed"]
    /\ UNCHANGED <<user_data, total_points, salary_vars>>

\* new_achievements = achievement_system.check_achievements(user_data)
\* (line 671); an exception ends the call
CheckOwnAchievements(c) ==
    /\ At(c, "update_user_achievements", "constructed")
    /\ result' =
           IF check_achievements(user_data[SnapshotOf(c)]).raised
           THEN [result EXCEPT ![c].outcome = Some(Raised), ![c].pc = "done"]
           ELSE [result EXCEPT
                    ![c].new_achievements =
                        check_achievements(user_data[SnapshotOf(c)]).value,
                               ![c].pc = "achievements_checked"]
    /\ UNCHANGED <<user_data, total_points, salary_vars>>

\* new_milestones = achievement_system.check_milestones(user_data) (line 672)
CheckOwnMilestones(c) ==
    /\ At(c, "update_user_achievements", "achievements_checked")
    /\ result' =
           [result EXCEPT
               ![c].new_milestones = check_milestones(user_data[SnapshotOf(c)]).value,
               ![c].pc = "milestones_checked"]
    /\ UNCHANGED <<user_data, total_points, salary_vars>>

\* Lines 675-680: the two lists are made if absent, the new achievements
\* appended
ExtendOwnAchievements(c) ==
    /\ At(c, "update_user_achievements", "milestones_checked")
    /\ user_data' =
           [user_data EXCEPT
               ![c] = ExtendUnlocked(@, result[c].new_achievements, <<>>)]
    /\ result' = [result EXCEPT ![c].pc = "achievements_extended"]
    /\ UNCHANGED <<total_points, salary_vars>>

\* Line 681
ExtendOwnMilestones(c) ==
    /\ At(c, "update_user_achievements", "achievements_extended")
    /\ user_data' =
           [user_data EXCEPT
               ![c] = ExtendUnlocked(@, <<>>, result[c].new_milestones)]
    /\ result' = [result EXCEPT ![c].pc = "milestones_extended"]
    /\ UNCHANGED <<total_points, salary_vars>>

\* Lines 683-687
ReturnUpdate(c) ==
    /\ At(c, "update_user_achievements", "milestones_extended")
    /\ result' =
           [result EXCEPT
               ![c].outcome =
                   Some(Returned([new_achievements |-> result[c].new_achievements,
                                  new_milestones |-> result[c].new_milestones,
                                  display_data |->
                                      get_achievement_display_data(user_data[c])])),
               ![c].pc = "done"]
    /\ UNCHANGED <<user_data, total_points, salary_vars>>

\* predict_current_salary on the instance every caller uses: it reads the
\* instance's tables and assigns none of them
PredictOwnSalary(c) ==
    /\ At(c, "predict_current_salary", "called")
    /\ result' =
           [result EXCEPT
               ![c].outcome =
                   Some(predict_current_salary(
                            predictors[1], result[c].start.education,
                            result[c].start.experience, result[c].start.interests,
                            result[c].start.location, result[c].start.company_size)),
               ![c].pc = "done"]
    /\ UNCHANGED <<user_data, total_points, salary_vars>>

NextConcurrent ==
    \E c \in Callers :
        \/ ConstructSystem(c)
        \/ CheckOwnAchievements(c)
        \/ CheckOwnMilestones(c)
        \/ ExtendOwnAchievements(c)
        \/ ExtendOwnMilestones(c)
        \/ ReturnUpdate(c)
        \/ PredictOwnSalary(c)

SpecConcurrent == InitConcurrent /\ [][NextConcurrent]_vars

----------------------------------------------------------------------------
(* The Salary Predictor page (src/pages/5_Salary_Predictor.py:28-72): a    *)
(* prediction is made for the drawn inputs, then one widget is moved up and *)
(* the page predicts again.  earlier is the call before the latest one.    *)

\* s with v put in after its first pos elements
InsertAt(s, pos, v) == SubSeq(s, 1, pos) \o <<v>> \o SubSeq(s, pos + 1, Len(s))

\* The place of v in the list s
PlaceOf(s, v) == CHOOSE i \in 1..Len(s) : s[i] = v

\* Every categorical input without interests, and four interests lists (no
\* bonus, 25%, 45% and 55% before the cap) in the dearest and the cheapest
\* location
ComparedInputs ==
    {SalaryArgs(ed, ex, <<>>, l, c) :
        ed \in Range(Educations), ex \in Range(Experiences),
        l \in Range(Locations) \cup {UnknownLocation},
        c \in Range(CompanySizes) \cup {UnknownCompanySize}}
    \cup {SalaryArgs(ed, ex, i, l, "Medium (201-1000)") :
              ed \in Range(Educations), ex \in Range(Experiences),
              i \in {<<"Machine Learning", "Data Science">>,
                     <<"Robotics", "Machine Learning">>,
                     <<"Robotics", "Deep Learning">>},
              l \in {"Bangalore", "Tier 2 Cities"}}

InitCompare ==
    /\ SalaryIdle
    /\ predictors = <<SalaryPredictor>>
    /\ prediction \in {Pending(args) : args \in ComparedInputs}
    /\ earlier = NoPrediction

\* The second call of a comparison, on the arguments args
PredictAgain(args) ==
    /\ prediction.called
    /\ ~earlier.called
    /\ earlier' = prediction
    /\ prediction' = Prediction(1, args)
    /\ UNCHANGED <<predictors, user_data, result, total_points>>

RaiseExperience ==
    /\ prediction.args.experience # Experiences[Len(Experiences)]
    /\ PredictAgain([prediction.args EXCEPT
                        !.experience = Experiences[PlaceOf(Experiences, @) + 1]])

RaiseEducation ==
    /\ prediction.args.education # Educations[Len(Educations)]
    /\ PredictAgain([prediction.args EXCEPT
                        !.education = Educations[PlaceOf(Educations, @) + 1]])

AddInterest ==
    \E k \in Range(KnownInterests), pos \in 0..Len(prediction.args.interests) :
        PredictAgain([prediction.args EXCEPT !.interests = InsertAt(@, pos, k)])

NextCompare == PredictDrawn \/ RaiseExperience \/ RaiseEducation \/ AddInterest

SpecCompare == InitCompare /\ [][NextCompare]_vars

----------------------------------------------------------------------------
(* The Achievements page and the user's file (src/pages/6_Achievements.py, *)
(* src/data_persistence.py).  user_data is st.session_state, earlier is    *)
(* the file user_<id>.json and result is the latest step with the IDs that *)
(* had been announced to the user before it.  The file is always the one   *)
(* of the same user: load_session_from_file is given the user_id under     *)
(* which the page saved.                                                   *)

\* st.session_state of a browser session that has just started
FreshSession == EmptyDict

\* user_<id>.json does not exist
NoFile == [exists |-> FALSE, readable |-> FALSE, data |-> EmptyDict]

\* datetime.now().isoformat() at the time of a save
SavedAt == "2024-01-08T09:30:00"

\* A course as the Certifications page marks it completed
\* (src/pages/3_Certifications.py:160-166): completion_date is a datetime
CompletedOnDate ==
    [course |-> <<"P","y","t","h","o","n"," ","B","a","s","i","c","s">>,
     status |-> "Completed", score |-> Some(88),
     completion_date |-> Some([datetime |-> "2024-01-07T18:00:00"])]

\* The session that holds the fields of a snapshot
SessionOf(snapshot) ==
    [user_name |-> snapshot.profile.name,
     user_education |-> snapshot.profile.education,
     user_experience |-> snapshot.profile.experience,
     user_interests |-> snapshot.profile.interests,
     learning_progress |-> snapshot.progress,
     recent_activities |-> snapshot.activities,
     certifications |-> snapshot.certifications,
     achievements |-> snapshot.achievements,
     milestones |-> snapshot.milestones]

\* The profile both the page and the save read from the session
SessionProfile(session) ==
    [name |-> Get(session, "user_name", ""),
     education |-> Get(session, "user_education", ""),
     experience |-> Get(session, "user_experience", ""),
     interests |-> Get(session, "user_interests", <<>>)]

\* user_data of the Achievements page (lines 19-31)
PageUserData(session) ==
    [profile |-> SessionProfile(session),
     progress |-> Get(session, "learning_progress", EmptyDict),
     activities |-> Get(session, "recent_activities", <<>>),
     certifications |-> Get(session, "certifications", <<>>),
     achievements |-> Get(session, "achievements", <<>>),
     milestones |-> Get(session, "milestones", <<>>)]

\* user_data of save_session_to_file (lines 103-115) with the last_updated
\* of save_user_data
SavedUserData(session) ==
    [profile |-> SessionProfile(session),
     progress |-> Get(session, "learning_progress", EmptyDict),
     activities |-> Get(session, "recent_activities", <<>>),
     certifications |-> Get(session, "certifications", <<>>),
     goals |-> Get(session, "career_goals", <<>>),
     preferences |-> Get(session, "user_preferences", EmptyDict),
     last_updated |-> SavedAt]

\* json.dump raises TypeError on a datetime object
IsDatetime(value) == value # None /\ "datetime" \in DOMAIN value[1]

JsonSerializable(data) ==
    \A i \in 1..Len(data.certifications) :
        ~IsDatetime(Get(data.certifications[i], "completion_date", None))

\* The file after save_user_data: open(file_path, 'w') has emptied it
\* before json.dump raises, and what was written until then is not a JSON
\* document.
save_user_data(data) ==
    IF JsonSerializable(data)
    THEN [exists |-> TRUE, readable |-> TRUE, data |-> data]
    ELSE [exists |-> TRUE, readable |-> FALSE, data |-> EmptyDict]

save_session_to_file(session) == save_user_data(SavedUserData(session))

\* A certification after lines 152-157: a completion_date string becomes a
\* datetime
LoadedCertification(cert) ==
    IF /\ Get(cert, "completion_date", None) # None
       /\ "str" \in DOMAIN cert.completion_date[1]
    THEN [cert EXCEPT !.completion_date = Some([datetime |-> cert.completion_date[1].str])]
    ELSE cert

\* The value load_session_from_file gives to a session key, <<>> when it
\* leaves the key alone
LoadedValue(data, key) ==
    IF key = "user_name" /\ "profile" \in DOMAIN data
    THEN <<Get(data.profile, "name", "")>>
    ELSE IF key = "user_education" /\ "profile" \in DOMAIN data
    THEN <<Get(data.profile, "education", "Bachelor's")>>
    ELSE IF key = "user_experience" /\ "profile" \in DOMAIN data
    THEN <<Get(data.profile, "experience", "Beginner (0-1 years)")>>
    ELSE IF key = "user_interests" /\ "profile" \in DOMAIN data
    THEN <<Get(data.profile, "interests", <<"Machine Learning", "Data Science">>)>>
    ELSE IF key = "learning_progress" /\ "progress" \in DOMAIN data
    THEN <<data.progress>>
    ELSE IF key = "recent_activities" /\ "activities" \in DOMAIN data
    THEN <<data.activities>>
    ELSE IF key = "certifications" /\ "certifications" \in DOMAIN data
    THEN <<[i \in 1..Len(data.certifications) |-> LoadedCertification(data.certifications[i])]>>
    ELSE IF key = "career_goals" /\ "goals" \in DOMAIN data
    THEN <<data.goals>>
    ELSE IF key = "user_preferences" /\ "preferences" \in DOMAIN data
    THEN <<data.preferences>>
    ELSE <<>>

LoadedKeys ==
    {"user_name", "user_education", "user_experience", "user_interests",
     "learning_progress", "recent_activities", "certifications", "career_goals",
     "user_preferences"}

\* <<session afterwards, return value>>
load_session_from_file(session, file) ==
    IF ~file.exists \/ ~file.readable
    THEN << session, FALSE >>
    ELSE << [k \in DOMAIN session \cup {key \in LoadedKeys : LoadedValue(file.data, key) # <<>>} |->
                IF k \in LoadedKeys /\ LoadedValue(file.data, k) # <<>>
                THEN LoadedValue(file.data, k)[1]
                ELSE session[k]],
            TRUE >>

\* The session after lines 36-39 of the page
StoreUnlocked(session, updated) ==
    [k \in DOMAIN session \cup {"achievements", "milestones"} |->
        IF k = "achievements" THEN updated.achievements
        ELSE IF k = "milestones" THEN updated.milestones
        ELSE session[k]]

Unlocked(session) ==
    Range(Get(session, "achievements", <<>>)) \cup Range(Get(session, "milestones", <<>>))

PersistenceSessions ==
    {FreshSession}
    \cup {SessionOf(Snapshot(p, g, c, a, u)) :
              p \in SessionProfiles, g \in SessionProgress,
              c \in SessionCertifications \cup {<<CompletedOnDate>>},
              a \in SessionActivities, u \in SessionUnlocked}

InitPersistence ==
    /\ user_data \in PersistenceSessions
    /\ earlier = NoFile
    /\ result = [op |-> "none", outcome |-> Returned(<<>>), announced |-> Unlocked(user_data)]
    /\ total_points = 0
    /\ predictors = <<>>
    /\ prediction = NoPrediction

\* The IDs announced to the user up to now: those of the earlier steps and
\* those the latest page call returned
AnnouncedSoFar ==
    result.announced
    \cup (IF result.op = "achievements_page" /\ ~result.outcome.raised
          THEN Range(result.outcome.value.new_achievements)
               \cup Range(result.outcome.value.new_milestones)
          ELSE {})

\* main() of the Achievements page down to line 40
AchievementsPage ==
    LET call == update_user_achievements(PageUserData(user_data))
    IN  /\ result' = [op |-> "achievements_page", outcome |-> call[2],
                      announced |-> AnnouncedSoFar]
        /\ IF call[2].raised
           THEN UNCHANGED <<user_data, earlier>>
           ELSE IF call[2].value.new_achievements # <<>> \/ call[2].value.new_milestones # <<>>
           THEN /\ user_data' = StoreUnlocked(user_data, call[1])
                /\ earlier' = save_session_to_file(StoreUnlocked(user_data, call[1]))
           ELSE UNCHANGED <<user_data, earlier>>
        /\ UNCHANGED <<total_points, predictors, prediction>>

\* A new browser session starts and loads the user's file
LoadIntoFreshSession ==
    LET call == load_session_from_file(FreshSession, earlier)
    IN  /\ user_data' = call[1]
        /\ result' = [op |-> "load_session_from_file", outcome |-> Returned(call[2]),
                      announced |-> AnnouncedSoFar]
        /\ UNCHANGED <<earlier, total_points, predictors, prediction>>

NextPersistence == AchievementsPage \/ LoadIntoFreshSession

SpecPersistence == InitPersistence /\ [][NextPersistence]_vars

----------------------------------------------------------------------------
(* Properties *)

Outcome == result.outcome

Value == result.outcome.value

ReturnedFrom(op) == result.op = op /\ ~result.outcome.raised

\* C1: check_achievements returns no ID that is in user_data['achievements'],
\* and check_milestones returns no ID that is in user_data['milestones'].
C1_NeverReturnsUnlocked ==
    /\ ReturnedFrom("check_achievements")
           => \A i \in 1..Len(Value) : ~InList(Value[i], user_data.achievements)
    /\ ReturnedFrom("check_milestones")
           => \A i \in 1..Len(Value) : ~InList(Value[i], user_data.milestones)

\* An unlocked ID whose predicate is true is held back while others are returned
C1_Witness ==
    /\ ReturnedFrom("check_achievements")
    /\ InList("courses_5", user_data.achievements)
    /\ Get(user_data.progress, "completed", 0) >= 5
    /\ InList("first_login", Value)

\* A second update_user_achievements call on the snapshot the first call left
SecondCall == update_user_achievements(user_data)[2]

\* C2: over a session of edits and update_user_achievements calls, neither
\* list ever holds an ID twice, every step keeps the IDs already granted (in
\* place), and after an update_user_achievements call a second call on the
\* unchanged snapshot returns empty new_achievements and new_milestones.
C2_GrantedOnceAndKept ==
    /\ [](/\ NoDuplicates(user_data.achievements)
          /\ NoDuplicates(user_data.milestones)
          /\ result.op = "update_user_achievements"
                => /\ ~SecondCall.raised
                   /\ SecondCall.value.new_achievements = <<>>
                   /\ SecondCall.value.new_milestones = <<>>)
    /\ [][/\ IsPrefix(user_data.achievements, user_data'.achievements)
          /\ IsPrefix(user_data.milestones, user_data'.milestones)]_vars

\* The part of C2 about the lists alone: no step of a session puts an ID
\* twice into a list, removes a granted ID or moves it, and a call that
\* returned is followed on the same snapshot by a call that returns nothing.
C2_ListsOnlyGrow ==
    /\ [](/\ NoDuplicates(user_data.achievements)
          /\ NoDuplicates(user_data.milestones)
          /\ ReturnedFrom("update_user_achievements")
                => /\ ~SecondCall.raised
                   /\ SecondCall.value.new_achievements = <<>>
                   /\ SecondCall.value.new_milestones = <<>>)
    /\ [][/\ IsPrefix(user_data.achievements, user_data'.achievements)
          /\ IsPrefix(user_data.milestones, user_data'.milestones)]_vars

\* C3: with an empty achievements list, check_achievements returns a list
\* that contains first_login.
C3_FirstLoginReturned ==
    (result.op = "check_achievements" /\ user_data.achievements = <<>>)
        => (~Outcome.raised /\ InList("first_login", Value))

IsScenario2 ==
    /\ user_data.progress = [completed |-> 5, streak |-> 0]
    /\ user_data.certifications = <<>>
    /\ user_data.activities = <<>>
    /\ user_data.profile = EmptyProfile
    /\ user_data.achievements = <<>>

\* C4: for completed = 5, streak = 0, no certifications, no activities, an
\* empty profile and nothing unlocked, check_achievements returns exactly
\* [first_login, courses_5].
C4_Scenario2 ==
    (result.op = "check_achievements" /\ IsScenario2)
        => Outcome = Returned(<<"first_login", "courses_5">>)

C4_Witness == result.op = "check_achievements" /\ IsScenario2

AllProfileFieldsNonEmpty ==
    /\ Get(user_data.profile, "name", "") # ""
    /\ Get(user_data.profile, "education", "") # ""
    /\ Get(user_data.profile, "experience", "") # ""
    /\ Get(user_data.profile, "interests", <<>>) # <<>>

\* C5: when profile_complete is not unlocked yet, check_achievements returns
\* it if and only if name, education, experience and interests are all
\* non-empty.
C5_ProfileCompleteIff ==
    (result.op = "check_achievements" /\ ~InList("profile_complete", user_data.achievements))
        => ((~Outcome.raised /\ InList("profile_complete", Value)) <=> AllProfileFieldsNonEmpty)

CourseLadder == <<"courses_5", "courses_10", "courses_25", "courses_50">>

StreakLadder == <<"course_streak_3", "course_streak_7", "course_streak_30">>

\* Every rung below a returned rung is returned too
LadderHolds(ladder) ==
    (\A k \in 1..Len(ladder) : ~InList(ladder[k], user_data.achievements))
        => \A k \in 1..Len(ladder) :
               InList(ladder[k], Value) => \A j \in 1..(k - 1) : InList(ladder[j], Value)

\* C6: when no ID of a ladder is unlocked, check_achievements returning
\* courses_K (course_streak_K) returns every lower rung of that ladder too.
C6_LaddersMonotonic ==
    ReturnedFrom("check_achievements") => (LadderHolds(CourseLadder) /\ LadderHolds(StreakLadder))

C6_Witness ==
    /\ ReturnedFrom("check_achievements")
    /\ InList("courses_50", Value)
    /\ InList("courses_5", Value)
    /\ InList("course_streak_30", Value)
    /\ InList("course_streak_3", Value)

\* Whether the snapshot meets one requirement of a milestone definition.  The
\* counts are those the engine itself derives from a snapshot (completed
\* courses, completed / high-score / perfect-score certifications, average
\* score, streak); a quantity the snapshot does not carry is 0; the two level
\* requirements, for which the snapshot defines no ordering, count as met.
RequirementMet(key, threshold) ==
    LET certifications == user_data.certifications
        scored == SelectSeq(certifications,
                      LAMBDA c : Get(c, "score", Some(0)) \notin {None, Some(0)})
        total == SumSeq([i \in 1..Len(scored) |-> scored[i].score[1]])
    IN  CASE key = "courses_completed" -> Get(user_data.progress, "completed", 0) >= threshold
          [] key = "certifications" ->
                 CountIf([i \in DOMAIN certifications |->
                            Get(certifications[i], "status", "") = "Completed"]) >= threshold
          [] key = "min_avg_score" -> Len(scored) > 0 /\ total >= threshold * Len(scored)
          [] key = "streak_days" -> Get(user_data.progress, "streak", 0) >= threshold
          [] key = "high_scores" ->
                 CountIf([i \in DOMAIN certifications |->
                            LET score == Get(certifications[i], "score", Some(0))
                            IN  score # None /\ score[1] >= 90]) >= threshold
          [] key = "perfect_scores" ->
                 CountIf([i \in DOMAIN certifications |->
                            Get(certifications[i], "score", Some(0)) = Some(100)]) >= threshold
          [] key \in {"min_level", "nsqf_level"} -> TRUE
          [] OTHER -> Get(user_data.progress, key, 0) >= threshold

\* C7: check_milestones returns a milestone only if the snapshot meets every
\* requirement key listed in its definition.
C7_AllRequirementsMet ==
    ReturnedFrom("check_milestones")
        => \A i \in 1..Len(Value) :
               LET requirements == MilestoneDef(Value[i]).requirements
               IN  \A key \in DOMAIN requirements : RequirementMet(key, requirements[key])

\* C8: when beginner_complete is not unlocked yet, check_milestones returns
\* it if and only if progress.completed >= 10.
C8_BeginnerCompleteIff ==
    (result.op = "check_milestones" /\ ~InList("beginner_complete", user_data.milestones))
        => ((~Outcome.raised /\ InList("beginner_complete", Value))
                <=> Get(user_data.progress, "completed", 0) >= 10)

\* Scenario 3: three completed certifications, one with score 100, completed = 3
C8_Witness ==
    /\ ReturnedFrom("check_milestones")
    /\ user_data.certifications = ThreeCompleted
    /\ Get(user_data.progress, "completed", 0) = 3
    /\ ~InList("beginner_complete", user_data.milestones)
    /\ ~InList("beginner_complete", Value)

\* The ladder as the claim states it
ClaimedLadder == <<0, 100, 300, 600, 1000, 1500, 2500, 4000, 6000, 9000>>

ClaimedLevel(points) == Cardinality({i \in 1..Len(ClaimedLadder) : ClaimedLadder[i] <= points})

LevelIsClaimed ==
    LET level == Value.level
        progress == Value.level_progress
    IN  /\ level \in 1..10
        /\ level = ClaimedLevel(total_points)
        /\ total_points >= 9000 => (level = 10 /\ progress = <<100, 1>>)
        /\ level < 10 =>
               /\ FracEq(progress,
                         << (total_points - ClaimedLadder[level]) * 100,
                            ClaimedLadder[level + 1] - ClaimedLadder[level] >>)
               /\ ~FracLess(progress, <<0, 1>>)
               /\ FracLess(progress, <<100, 1>>)

\* C9: the level is in 1..10, follows the ladder 0, 100, ..., 9000 and never
\* goes down when the points go up; from 9000 points on it is 10 with
\* level_progress exactly 100; below level 10 level_progress is the linear
\* interpolation between the two thresholds and lies in [0, 100).
C9_LevelLadder ==
    /\ [](result.op = "calculate_level" => LevelIsClaimed)
    /\ [][total_points <= total_points'
              => result.outcome.value.level <= result'.outcome.value.level]_vars

C9_Witness ==
    /\ result.op = "calculate_level"
    /\ total_points > 9000
    /\ Value.level = 10

Occurrences(id, list) == Cardinality({i \in 1..Len(list) : list[i] = id})

\* The points of the catalog entries, each times its occurrences in the lists
ClaimedTotalPoints ==
    SumSeq([i \in 1..Len(achievement_definitions) |->
               achievement_definitions[i].points
                   * Occurrences(achievement_definitions[i].id, user_data.achievements)])
    + SumSeq([i \in 1..Len(milestone_definitions) |->
                 milestone_definitions[i].rewards.points
                     * Occurrences(milestone_definitions[i].id, user_data.milestones)])

\* C10: get_achievement_display_data returns (never raises); total_points is
\* the points of the unlocked IDs found in the two catalogs; an unlocked ID
\* in neither catalog is in no category bucket and not in recent_milestones.
C10_UnknownIdsIgnored ==
    result.op = "get_achievement_display_data" =>
        /\ ~Outcome.raised
        /\ Value.total_points = ClaimedTotalPoints
        /\ \A b \in 1..Len(Value.categorized_achievements) :
               \A e \in 1..Len(Value.categorized_achievements[b].achievements) :
                   \E d \in 1..Len(achievement_definitions) :
                       achievement_definitions[d].id
                           = Value.categorized_achievements[b].achievements[e].id
        /\ \A m \in 1..Len(Value.recent_milestones) :
               \E d \in 1..Len(milestone_definitions) :
                   milestone_definitions[d].id = Value.recent_milestones[m].id

C10_Witness ==
    /\ ReturnedFrom("get_achievement_display_data")
    /\ user_data.achievements = <<"legacy_badge", "courses_5">>
    /\ user_data.milestones = <<"nsqf_level_5">>
    /\ Value.total_points = 500

----------------------------------------------------------------------------
(* Properties of predict_current_salary *)

Hundredths(x) == BigToInt(BigShrRound(BigMulSmall(x.m, 100), 0 - x.e))

RECURSIVE SumHundredths(_, _)
SumHundredths(skill_bonuses, interests) ==
    IF interests = <<>> THEN 0
    ELSE Hundredths(Get(skill_bonuses, Head(interests), FloatZero))
             + SumHundredths(skill_bonuses, Tail(interests))

\* The average salaries of NSQF levels 4..8, in tenths of a lakh
ClaimedBaseTenths == <<30, 45, 75, 130, 225>>

\* min(sum of the interests' bonuses, 0.5), in hundredths
ClaimedSkillBonus(args) ==
    Min2(SumHundredths(SalaryPredictor.growth_factors.skill_bonuses, args.interests), 50)

\* base * exp * (1 + skillBonus) * loc * company * market in real numbers,
\* as a natural number of units of 10^-10 tenths
ClaimedProduct(args) ==
    LET g == SalaryPredictor.growth_factors
        level == Get(EDUCATION_TO_NSQF, args.education, 6)
        factors ==
            <<Hundredths(Get(g.experience_multiplier, args.experience, DEFAULT_MULTIPLIER)),
              100 + ClaimedSkillBonus(args),
              Hundredths(Get(g.location_multipliers, args.location, DEFAULT_MULTIPLIER)),
              Hundredths(Get(g.company_size_multipliers, args.company_size,
                             DEFAULT_MULTIPLIER)),
              Hundredths(Get(SalaryPredictor.market_trends.market_saturation,
                             args.experience, DEFAULT_MULTIPLIER))>>
    IN  BigMulSmall(BigMulSmall(BigMulSmall(BigMulSmall(BigMulSmall(
            BigFromInt(ClaimedBaseTenths[level - 3]),
            factors[1]), factors[2]), factors[3]), factors[4]), factors[5])

TenToTheTenth == BigMulSmall(BigMulSmall(BigFromInt(10000), 10000), 100)

\* r tenths is a one-decimal value nearest to the real number n / 10^10
\* tenths: |r - n / 10^10| <= 1/2
IsNearestTenth(r, n) ==
    /\ BigCmp(BigMulSmall(n, 2), BigMulSmall(TenToTheTenth, 2 * r + 1)) <= 0
    /\ BigCmp(BigMulSmall(TenToTheTenth, 2 * r - 1), BigMulSmall(n, 2)) <= 0

ExampleArgs ==
    SalaryArgs("Bachelor's", "Beginner (0-1 years)", <<>>, "Bangalore", "Medium (201-1000)")

\* C12: predicted_salary is base * exp * (1 + skillBonus) * loc * company *
\* market rounded to one decimal, the bases of levels 4..8 being 3.0, 4.5,
\* 7.5, 13.0 and 22.5; for Bachelor's / Beginner / no interests / Bangalore /
\* Medium the base is 7.5 and the reported salary 6.1.
C12_SalaryFormula ==
    prediction.called =>
        /\ prediction.value.factors.base_salary
               = ClaimedBaseTenths[prediction.value.nsqf_level - 3]
        /\ IsNearestTenth(prediction.value.predicted_salary, ClaimedProduct(prediction.args))
        /\ prediction.args = ExampleArgs =>
               /\ prediction.value.factors.base_salary = 75
               /\ prediction.value.predicted_salary = 61

C12_Witness ==
    /\ prediction.called
    /\ prediction.args = ExampleArgs
    /\ prediction.value.predicted_salary = 61
    /\ BigMulSmall(ClaimedProduct(prediction.args), 10) = BigMulSmall(TenToTheTenth, 612)

C12_WitnessAllFactors ==
    /\ prediction.called
    /\ prediction.args.education = "PhD"
    /\ prediction.args.experience = "Advanced (5+ years)"
    /\ prediction.args.interests = <<"Robotics", "MLOps">>
    /\ prediction.args.location = "Tier 2 Cities"
    /\ prediction.args.company_size = "Enterprise (5000+)"
    /\ prediction.value.factors.skill_bonus = 480

\* C13: for every combination of table-valid inputs the returned one-decimal
\* values satisfy salary_range.min < predicted_salary < salary_range.max
\* strictly, and predicted_salary is positive.
C13_StrictlyInsideRange ==
    prediction.called =>
        /\ prediction.value.salary_range.min < prediction.value.predicted_salary
        /\ prediction.value.predicted_salary < prediction.value.salary_range.max
        /\ prediction.value.predicted_salary > 0

\* The lowest prediction there is, where the three values are closest
C13_Witness ==
    /\ prediction.called
    /\ prediction.args = SalaryArgs("High School", "Beginner (0-1 years)", <<>>,
                                    "Tier 2 Cities", "Startup (1-50)")
    /\ prediction.value.predicted_salary = 11
    /\ prediction.value.salary_range.min = 9
    /\ prediction.value.salary_range.max = 15

\* The interests that have an entry in skill_bonuses, in the list's order
KnownOf(interests) ==
    SelectSeq(interests,
              LAMBDA x : x \in DOMAIN SalaryPredictor.growth_factors.skill_bonuses)

\* C14: the combined skill bonus never exceeds 0.5 (factors.skill_bonus <=
\* 50.0) for any interests list, all eight known interests and repeated ones
\* included; an unknown interest contributes 0, so the bonus reported is the
\* sum over the known entries of the list, capped at 50.0.
C14_SkillBonusCapped ==
    prediction.called =>
        /\ prediction.value.factors.skill_bonus <= 500
        /\ prediction.value.factors.skill_bonus
               = 10 * Min2(SumHundredths(SalaryPredictor.growth_factors.skill_bonuses,
                                         KnownOf(prediction.args.interests)),
                           50)

\* All eight interests add up to 143%, ten times Robotics to 300%
C14_Witness ==
    /\ prediction.called
    /\ prediction.args.interests \in {KnownInterests, [i \in 1..MaxRepeat |-> "Robotics"]}
    /\ SumHundredths(SalaryPredictor.growth_factors.skill_bonuses,
                     prediction.args.interests) > 100
    /\ prediction.value.factors.skill_bonus = 500

C14_WitnessUnknown ==
    /\ prediction.called
    /\ prediction.args.interests = <<UnknownInterest, "MLOps">>
    /\ prediction.value.factors.skill_bonus = 180

\* The float x is the real number num / den up to 2^-40 of it
FloatNear(x, num, den) ==
    LET a == BigMulSmall(x.m, den)
        b == BigShl(BigFromInt(num), 0 - x.e)
        tolerance == BigShl(BigFromInt(den), (0 - x.e) - 40)
    IN  /\ x.e <= 0 - 40
        /\ BigCmp(a, BigAdd(b, tolerance)) <= 0
        /\ BigCmp(b, BigAdd(a, tolerance)) <= 0

\* min(0.95, 0.7 + 0.1 [level in 5..7] + 0.1 [Intermediate or Advanced]
\*           + min(0.02 * number of interests, 0.1)), in hundredths
ClaimedConfidence(args) ==
    LET level == Get(EDUCATION_TO_NSQF, args.education, 6)
    IN  Min2(95,
             70 + (IF level \in 5..7 THEN 10 ELSE 0)
                + (IF args.experience \in {"Intermediate (2-4 years)", "Advanced (5+ years)"}
                   THEN 10 ELSE 0)
                + Min2(2 * Len(args.interests), 10))

\* C15: the confidence returned is within [0.7, 0.95] (as Python compares
\* floats: 0.7 <= confidence <= 0.95) for every education, experience and
\* interests list, and is the value of the formula above.
C15_ConfidenceRange ==
    prediction.called =>
        /\ FloatLeq(BASE_CONFIDENCE, prediction.value.confidence)
        /\ FloatLeq(prediction.value.confidence, MAX_CONFIDENCE)
        /\ FloatNear(prediction.value.confidence, ClaimedConfidence(prediction.args), 100)

\* 0.7 + 0.1 + 0.1 + 0.1 is cut to 0.95
C15_Witness ==
    /\ prediction.called
    /\ prediction.args.education = "Bachelor's"
    /\ prediction.args.experience = "Advanced (5+ years)"
    /\ prediction.args.interests = KnownInterests
    /\ prediction.value.confidence = MAX_CONFIDENCE

C15_WitnessLowest ==
    /\ prediction.called
    /\ prediction.args.education = "PhD"
    /\ prediction.args.experience = UnknownExperience
    /\ prediction.args.interests = <<>>
    /\ prediction.value.confidence = BASE_CONFIDENCE

\* The call made with the unknown interests taken out of the list
WithoutUnknownInterests ==
    predict_current_salary(predictors[prediction.predictor], prediction.args.education,
                           prediction.args.experience, KnownOf(prediction.args.interests),
                           prediction.args.location, prediction.args.company_size)

IsCompletePrediction(v) ==
    /\ DOMAIN v = {"predicted_salary", "salary_range", "factors", "nsqf_level", "confidence"}
    /\ DOMAIN v.salary_range = {"min", "max", "median"}
    /\ DOMAIN v.factors = {"base_salary", "experience_factor", "skill_bonus",
                           "location_factor", "company_factor", "market_factor"}
    /\ v.predicted_salary \in Nat
    /\ v.nsqf_level \in 4..8

\* C16: a lookup miss in predict_current_salary resolves to its default: an
\* unmapped education gives NSQF level 6 (base 7.5), an unknown experience
\* gives experience and market multiplier 1.0, an unknown location 1.0, an
\* unknown company size 1.0, an unknown interest adds no bonus; the call
\* returns a complete prediction.
C16_LookupDefaults ==
    prediction.called =>
        LET args == prediction.args
            v == prediction.value
            g == predictors[prediction.predictor].growth_factors
        IN  /\ IsCompletePrediction(v)
            /\ args.education \notin DOMAIN EDUCATION_TO_NSQF =>
                   v.nsqf_level = 6 /\ v.factors.base_salary = 75
            /\ args.experience \notin DOMAIN g.experience_multiplier =>
                   v.factors.experience_factor = FLOAT_ONE /\ v.factors.market_factor = FLOAT_ONE
            /\ args.location \notin DOMAIN g.location_multipliers =>
                   v.factors.location_factor = FLOAT_ONE
            /\ args.company_size \notin DOMAIN g.company_size_multipliers =>
                   v.factors.company_factor = FLOAT_ONE
            /\ KnownOf(args.interests) # args.interests =>
                   /\ v.factors.skill_bonus = WithoutUnknownInterests.factors.skill_bonus
                   /\ v.predicted_salary = WithoutUnknownInterests.predicted_salary

\* Every lookup misses at once: 7.5 * 1.0 * 1.0 * 1.0 * 1.0 * 1.0
C16_Witness ==
    /\ prediction.called
    /\ prediction.args = SalaryArgs(UnknownEducation, UnknownExperience, <<>>,
                                    UnknownLocation, UnknownCompanySize)
    /\ prediction.value.predicted_salary = 75
    /\ prediction.value.nsqf_level = 6

C16_WitnessInterest ==
    /\ prediction.called
    /\ prediction.args.education = UnknownEducation
    /\ prediction.args.interests = <<"Robotics", UnknownInterest>>
    /\ prediction.value.factors.skill_bonus = 300

----------------------------------------------------------------------------
(* Properties of the engine on incomplete and malformed snapshots *)

\* The snapshot with every absent field written out as empty or zero
FilledProfile(p) ==
    [name |-> Get(p, "name", ""), education |-> Get(p, "education", ""),
     experience |-> Get(p, "experience", ""), interests |-> Get(p, "interests", <<>>)]

FilledProgress(g) == [completed |-> Get(g, "completed", 0), streak |-> Get(g, "streak", 0)]

FilledCertification(c) ==
    [course |-> Get(c, "course", <<>>), status |-> Get(c, "status", ""),
     score |-> Get(c, "score", Some(0))]

FilledActivity(a) == [action |-> Get(a, "action", ""), date |-> Get(a, "date", <<>>)]

Filled(u) ==
    LET certifications == Get(u, "certifications", <<>>)
        activities == Get(u, "activities", <<>>)
    IN  Snapshot(FilledProfile(Get(u, "profile", EmptyDict)),
                 FilledProgress(Get(u, "progress", EmptyDict)),
                 [i \in DOMAIN certifications |-> FilledCertification(certifications[i])],
                 [i \in DOMAIN activities |-> FilledActivity(activities[i])],
                 <<Get(u, "achievements", <<>>), Get(u, "milestones", <<>>)>>)

\* What the operation named op gives on the snapshot u
OutcomeOn(op, u) ==
    CASE op = "check_achievements" -> check_achievements(u)
      [] op = "check_milestones" -> check_milestones(u)
      [] op = "get_achievement_display_data" -> Returned(get_achievement_display_data(u))

C17_WitnessInnerField ==
    /\ result.op = "check_achievements"
    /\ ~Outcome.raised
    /\ "certifications" \in DOMAIN user_data
    /\ Len(user_data.certifications) = 2
    /\ user_data.certifications[1] = EmptyDict
    /\ "score" \notin DOMAIN user_data.certifications[2]

ReadOnlyOps == {"check_achievements", "check_milestones", "get_achievement_display_data"}

\* C18: check_achievements, check_milestones and get_achievement_display_data
\* leave the whole snapshot unchanged; update_user_achievements leaves
\* profile, progress, certifications and activities unchanged and changes
\* the achievements and milestones lists only by appending the returned new
\* IDs after the existing entries (a call that raises changes nothing).
C18_SnapshotFrame ==
    [][/\ result'.op \in ReadOnlyOps => user_data' = user_data
       /\ result'.op = "update_user_achievements" =>
              /\ \A k \in {"profile", "progress", "certifications", "activities"} :
                     /\ k \in DOMAIN user_data' <=> k \in DOMAIN user_data
                     /\ k \in DOMAIN user_data => user_data'[k] = user_data[k]
              /\ IF result'.outcome.raised
                 THEN user_data' = user_data
                 ELSE /\ Get(user_data', "achievements", <<>>)
                             = Get(user_data, "achievements", <<>>)
                                   \o result'.outcome.value.new_achievements
                      /\ Get(user_data', "milestones", <<>>)
                             = Get(user_data, "milestones", <<>>)
                                   \o result'.outcome.value.new_milestones]_vars

\* New IDs were appended behind the two the session started with
C18_Witness ==
    /\ ReturnedFrom("update_user_achievements")
    /\ Value.new_achievements # <<>>
    /\ user_data.achievements = <<"secret_agent", "first_login">> \o Value.new_achievements
    /\ user_data.profile = FullProfile

\* The completions of the snapshot and the day numbers of their dates
CompletedActivities ==
    SelectSeq(Activities(user_data), LAMBDA a : Get(a, "action", "") = "Completed")

DateOf(a) == fromisoformat(Get(a, "date", <<>>))

\* Some three of the entries of list that have a date lie within 7 days;
\* ordered by date, three such entries can be taken next to each other
ThreeWithinAWeek(list) ==
    \E i, j, k \in {n \in 1..Len(list) : DateOf(list[n]) # <<>>} :
        /\ i < j /\ j < k
        /\ \A x, y \in {i, j, k} : DateOf(list[x])[1] - DateOf(list[y])[1] <= 7

\* C19: quick_learner is true if and only if, among the 'Completed'
\* activities in ascending date order, some three consecutive completions
\* lie within 7 days, whatever the order the activities are stored in.
\* (Stated for snapshots whose completions all have a well-formed date.)
C19_QuickLearnerIff ==
    (/\ result.op = "check_achievements"
     /\ \A i \in 1..Len(CompletedActivities) : DateOf(CompletedActivities[i]) # <<>>)
        => /\ ~Outcome.raised
           /\ InList("quick_learner", Value) <=> ThreeWithinAWeek(CompletedActivities)

\* C20: an activity whose date is missing or unparseable never makes
\* check_achievements raise; weekend_warrior is true exactly when some
\* activity with a parseable date falls on a Saturday or Sunday, and
\* quick_learner is still true when the well-formed completions contain
\* three within 7 days.
C20_MalformedDatesSkipped ==
    (/\ result.op = "check_achievements"
     /\ \E i \in 1..Len(Activities(user_data)) : DateOf(Activities(user_data)[i]) = <<>>)
        => /\ ~Outcome.raised
           /\ InList("weekend_warrior", Value)
                  <=> \E i \in 1..Len(Activities(user_data)) :
                          /\ DateOf(Activities(user_data)[i]) # <<>>
                          /\ weekday(DateOf(Activities(user_data)[i])[1]) >= 5
           /\ ThreeWithinAWeek(CompletedActivities) => InList("quick_learner", Value)

\* The part of C20 about weekend_warrior and about not raising
C20_WeekendAndNoRaise ==
    result.op = "check_achievements"
        => /\ ~Outcome.raised
           /\ InList("weekend_warrior", Value)
                  <=> \E i \in 1..Len(Activities(user_data)) :
                          /\ DateOf(Activities(user_data)[i]) # <<>>
                          /\ weekday(DateOf(Activities(user_data)[i])[1]) >= 5

----------------------------------------------------------------------------
(* Properties of the catalog order, the next achievements and the rule-less *)
(* IDs                                                                      *)

\* The catalog IDs criteria_map has no entry for
RuleLessIds == Range(AchievementIds) \ CriteriaIds

\* C21: check_achievements never returns a catalog ID that has no rule in
\* the predicate table (secret_agent, time_traveler, ai_researcher), and
\* update_user_achievements never adds one: after any sequence of calls such
\* an ID is in the achievements list only if it was there before.
C21_RuleLessNeverUnlocked ==
    [][/\ RuleLessIds = {"secret_agent", "time_traveler", "ai_researcher"}
       /\ \A id \in RuleLessIds :
              /\ (result'.op = "check_achievements" /\ ~result'.outcome.raised)
                     => ~InList(id, result'.outcome.value)
              /\ (result'.op = "update_user_achievements" /\ ~result'.outcome.raised)
                     => ~InList(id, result'.outcome.value.new_achievements)
              /\ InList(id, Get(user_data', "achievements", <<>>))
                     => InList(id, Get(user_data, "achievements", <<>>))]_vars

\* update_user_achievements unlocked IDs on a snapshot in which the caller
\* had put secret_agent; the other two rule-less IDs stay locked
C21_Witness ==
    /\ ReturnedFrom("update_user_achievements")
    /\ Len(Value.new_achievements) >= 3
    /\ InList("secret_agent", user_data.achievements)
    /\ ~InList("ai_researcher", user_data.achievements)
    /\ ~InList("time_traveler", user_data.achievements)

\* check_achievements returned IDs for a snapshot with all locked
C21_WitnessCheck ==
    /\ ReturnedFrom("check_achievements")
    /\ Get(user_data, "achievements", <<>>) = <<>>
    /\ Len(Value) >= 3

\* The place of an ID in the catalog it is defined in
AchievementPlace(id) ==
    CHOOSE i \in 1..Len(achievement_definitions) : achievement_definitions[i].id = id

MilestonePlace(id) ==
    CHOOSE i \in 1..Len(milestone_definitions) : milestone_definitions[i].id = id

AchievementsInCatalogOrder(list) ==
    \A i, j \in 1..Len(list) : i < j => AchievementPlace(list[i]) < AchievementPlace(list[j])

MilestonesInCatalogOrder(list) ==
    \A i, j \in 1..Len(list) : i < j => MilestonePlace(list[i]) < MilestonePlace(list[j])

\* The last n entries of list
LastEntries(list, n) == SubSeq(list, Len(list) - n + 1, Len(list))

\* C22: check_achievements and check_milestones return the newly earned IDs
\* in catalog insertion order: an ID defined earlier in the catalog comes
\* earlier in the returned list, and update_user_achievements appends the
\* IDs in that order.
C22_CatalogOrder ==
    /\ ReturnedFrom("check_achievements") => AchievementsInCatalogOrder(Value)
    /\ ReturnedFrom("check_milestones") => MilestonesInCatalogOrder(Value)
    /\ ReturnedFrom("update_user_achievements") =>
           /\ AchievementsInCatalogOrder(Value.new_achievements)
           /\ MilestonesInCatalogOrder(Value.new_milestones)
           /\ LastEntries(user_data.achievements, Len(Value.new_achievements))
                  = Value.new_achievements
           /\ LastEntries(user_data.milestones, Len(Value.new_milestones))
                  = Value.new_milestones

\* Four or more achievements were returned, among them two that the
\* alphabet orders the other way round than the catalog does
C22_Witness ==
    /\ ReturnedFrom("check_achievements")
    /\ Len(Value) >= 4
    /\ InList("profile_complete", Value)
    /\ InList("first_course_start", Value)

\* update_user_achievements appended several achievements and milestones
C22_WitnessUpdate ==
    /\ ReturnedFrom("update_user_achievements")
    /\ Len(Value.new_achievements) >= 3
    /\ Len(Value.new_milestones) >= 2

\* The catalog entries that may be shown as next achievements: not unlocked,
\* not hidden, with a progress score above 0
NextCandidates ==
    {i \in 1..Len(achievement_definitions) :
        /\ ~InList(achievement_definitions[i].id, Get(user_data, "achievements", <<>>))
        /\ ~achievement_definitions[i].hidden
        /\ FracLess(<<0, 1>>,
               _calculate_achievement_progress(achievement_definitions[i].id, user_data))}

ProgressOfPlace(i) ==
    _calculate_achievement_progress(achievement_definitions[i].id, user_data)

\* C23: next_achievements has at most 5 entries; every entry is a catalog
\* achievement that is not hidden and not unlocked, with a progress score
\* in (0, 100]; the entries are ordered by non-increasing progress; and no
\* excluded candidate has a strictly higher progress than an included one.
C23_NextAchievements ==
    ReturnedFrom("get_achievement_display_data") =>
        LET next == Value.next_achievements
            shown == {AchievementPlace(next[i].id) : i \in 1..Len(next)}
        IN  /\ Len(next) <= 5
            /\ \A i \in 1..Len(next) :
                   /\ IsAchievementId(next[i].id)
                   /\ AchievementPlace(next[i].id) \in NextCandidates
                   /\ next[i].progress = ProgressOfPlace(AchievementPlace(next[i].id))
                   /\ FracLess(<<0, 1>>, next[i].progress)
                   /\ ~FracLess(<<100, 1>>, next[i].progress)
            /\ \A i, j \in 1..Len(next) :
                   i < j => /\ ~FracLess(next[i].progress, next[j].progress)
                            /\ next[i].id # next[j].id
            /\ \A c \in NextCandidates \ shown :
                   /\ Len(next) = 5
                   /\ \A i \in 1..Len(next) : ~FracLess(next[i].progress, ProgressOfPlace(c))

\* Six candidates, so one is cut off, and the five shown differ in progress
C23_Witness ==
    /\ ReturnedFrom("get_achievement_display_data")
    /\ Cardinality(NextCandidates) = 6
    /\ Len(Value.next_achievements) = 5
    /\ FracLess(Value.next_achievements[5].progress, Value.next_achievements[1].progress)

\* An unlocked achievement with progress is left out
C23_WitnessUnlocked ==
    /\ ReturnedFrom("get_achievement_display_data")
    /\ InList("courses_5", Get(user_data, "achievements", <<>>))
    /\ FracLess(<<0, 1>>, _calculate_achievement_progress("courses_5", user_data))
    /\ Value.next_achievements # <<>>

----------------------------------------------------------------------------
(* Properties of predict_career_progression                                *)

\* A call of predict_career_progression has returned
ProgressionReturned == prediction.called /\ ~prediction.outcome.raised

Entries == prediction.outcome.value.progression

CurrentNsqf == get_nsqf_level_by_education(prediction.args.current_education)

TargetNsqf == target_nsqf_from(prediction.args.target_role, FIRST_NSQF_LEVEL, CurrentNsqf)

\* C24: the level of year 0 is the current level, the level never decreases
\* from one year to the next, whatever the education and the target role,
\* and it is min(current + floor(year / 2), target) when the target is not
\* below the current level
C24_LevelNonDecreasing ==
    ProgressionReturned =>
        /\ Entries[1].nsqf_level = CurrentNsqf
        /\ \A i \in 1..(Len(Entries) - 1) :
               Entries[i].nsqf_level <= Entries[i + 1].nsqf_level
        /\ TargetNsqf >= CurrentNsqf =>
               \A i \in 1..Len(Entries) :
                   Entries[i].nsqf_level
                       = Min2(CurrentNsqf + (Entries[i].year \div 2), TargetNsqf)

\* The part of C24 the code keeps: year 0 at the current level and, for a
\* target not below it, min(current + floor(year / 2), target) every year
C24_LevelTowardsTarget ==
    ProgressionReturned =>
        /\ Entries[1].nsqf_level = CurrentNsqf
        /\ TargetNsqf >= CurrentNsqf =>
               /\ \A i \in 1..(Len(Entries) - 1) :
                      Entries[i].nsqf_level <= Entries[i + 1].nsqf_level
               /\ \A i \in 1..Len(Entries) :
                      Entries[i].nsqf_level
                          = Min2(CurrentNsqf + (Entries[i].year \div 2), TargetNsqf)

\* A PhD aiming at a role of level 5: the level falls from 8 to 5 after year 0
C24_LevelDrops ==
    /\ ProgressionReturned
    /\ TargetNsqf < CurrentNsqf
    /\ Len(Entries) >= 2
    /\ Entries[2].nsqf_level < Entries[1].nsqf_level

YearsAhead == prediction.args.years_ahead

target_achieved_year == prediction.outcome.value.target_achieved_year

\* The years of the entries whose level has reached the target
YearsAtTarget == {Entries[i].year : i \in {j \in 1..Len(Entries) : Entries[j].nsqf_level >= TargetNsqf}}

\* C25: target_achieved_year is the smallest year of 0..years_ahead whose
\* level has reached the target level and null when no year has; for a
\* target d >= 1 levels above the current one that is 2d when 2d <=
\* years_ahead and null otherwise, and it is 0 when the target is the
\* current level
C25_TargetAchievedYear ==
    ProgressionReturned =>
        /\ YearsAtTarget \subseteq 0..YearsAhead
        /\ YearsAtTarget = {} => target_achieved_year = None
        /\ YearsAtTarget # {} =>
               /\ target_achieved_year # None
               /\ target_achieved_year[1] \in YearsAtTarget
               /\ \A y \in YearsAtTarget : target_achieved_year[1] <= y
        /\ TargetNsqf > CurrentNsqf =>
               target_achieved_year
                   = IF 2 * (TargetNsqf - CurrentNsqf) <= YearsAhead
                     THEN Some(2 * (TargetNsqf - CurrentNsqf))
                     ELSE None
        /\ TargetNsqf = CurrentNsqf => target_achieved_year = Some(0)

\* Two levels to gain in five years: reached in year 4, with a year after it
C25_Witness ==
    /\ ProgressionReturned
    /\ TargetNsqf = CurrentNsqf + 2
    /\ YearsAhead = MaxYearsAhead
    /\ target_achieved_year = Some(4)
    /\ YearsAtTarget = 4..YearsAhead

\* Three levels to gain in the five years of the default: not reached
C25_WitnessNull ==
    /\ ProgressionReturned
    /\ TargetNsqf = CurrentNsqf + 3
    /\ YearsAhead = 5
    /\ target_achieved_year = None

FirstSalary == Entries[1].salary

LastSalary == Entries[Len(Entries)].salary

\* t tenths is (last - first) / first * 100 rounded to one decimal: the exact
\* quotient is within half a tenth of it, |t / 10 - 100 (last - first) / first|
\* <= 1 / 20, cleared of fractions
IsGrowthPercent(t, first, last) ==
    /\ 2 * t * first - 2000 * (last - first) <= first
    /\ 2000 * (last - first) - 2 * t * first <= first

\* C26: for years_ahead >= 0 the call returns years_ahead + 1 entries with
\* year 0, 1, .., years_ahead in this order; the salary of year 0 is the
\* predicted_salary of predict_current_salary for the same education and
\* experience and no interests; the salary rises strictly from each year to
\* the next; total_growth is (last - first) / first * 100 rounded to one
\* decimal, 0 when years_ahead is 0
C26_ProgressionList ==
    /\ prediction.called /\ YearsAhead >= 0 => ~prediction.outcome.raised
    /\ ProgressionReturned =>
        /\ Len(Entries) = YearsAhead + 1
        /\ \A i \in 1..Len(Entries) : Entries[i].year = i - 1
        /\ FirstSalary
               = predict_current_salary(predictors[prediction.predictor],
                                        prediction.args.current_education,
                                        prediction.args.current_experience, <<>>,
                                        "Bangalore", "Medium (201-1000)").predicted_salary
        /\ \A i \in 1..(Len(Entries) - 1) : Entries[i].salary < Entries[i + 1].salary
        /\ IsGrowthPercent(prediction.outcome.value.total_growth, FirstSalary, LastSalary)
        /\ YearsAhead = 0 => prediction.outcome.value.total_growth = 0

\* A Master's beginner aiming at a level 8 role over five years: six entries,
\* the salary more than doubled
C26_Witness ==
    /\ ProgressionReturned
    /\ prediction.args.current_education = "Master's"
    /\ prediction.args.current_experience = "Beginner (0-1 years)"
    /\ TargetNsqf = 8
    /\ YearsAhead = 5
    /\ Len(Entries) = 6
    /\ LastSalary > 2 * FirstSalary
    /\ prediction.outcome.value.total_growth > 1000

\* years_ahead = 0: one entry and no growth
C26_WitnessNoYears ==
    /\ ProgressionReturned
    /\ YearsAhead = 0
    /\ Len(Entries) = 1
    /\ prediction.outcome.value.total_growth = 0

----------------------------------------------------------------------------
(* Properties of concurrent callers                                        *)

\* Caller c has finished with what the call gives when it runs alone on
\* what c started with
UpdateAsAlone(c, alone) ==
    /\ user_data[c] = alone[1]
    /\ result[c].outcome = Some(alone[2])

PredictAsAlone(c, args) ==
    /\ user_data[c] = NewSession
    /\ result[c].outcome
           = Some(predict_current_salary(SalaryPredictor, args.education, args.experience,
                                         args.interests, args.location, args.company_size))

FinishedAsAlone(c) ==
    IF result[c].op = "update_user_achievements"
    THEN UpdateAsAlone(c, update_user_achievements(result[c].start))
    ELSE PredictAsAlone(c, result[c].start)

\* C27: whatever the order in which the statements of the callers are
\* interleaved, every caller that has finished holds the result and the
\* snapshot of the same call run alone; the catalogs of every
\* AchievementSystem and the tables of the predictor are as constructed
C27_NoInterference ==
    /\ \A c \in Callers : result[c].pc = "done" => FinishedAsAlone(c)
    /\ \A c \in Callers :
           result[c].op = "update_user_achievements"
               => result[c].achievement_system \in {None, Some(AchievementSystem)}
    /\ predictors = <<SalaryPredictor>>

\* Both callers have finished, the second one after statements of the
\* first: one unlocked IDs, the other was refused by a score of None
C27_Witness ==
    /\ result[1].pc = "done" /\ result[2].pc = "done"
    /\ result[1].op = "update_user_achievements"
    /\ result[2].op = "update_user_achievements"
    /\ result[1].start = RichSnapshot
    /\ result[2].start = NewSession
    /\ ~result[1].outcome[1].raised
    /\ result[1].outcome[1].value.new_achievements # <<>>
    /\ result[1].outcome[1].value.new_achievements
           # result[2].outcome[1].value.new_achievements

\* A caller of each kind has finished, the update with an exception
C27_WitnessMixed ==
    /\ result[1].pc = "done" /\ result[2].pc = "done"
    /\ result[1].op = "predict_current_salary"
    /\ result[2].op = "update_user_achievements"
    /\ result[2].outcome = Some(Raised)

----------------------------------------------------------------------------
(* Properties of the user's file *)

\* The latest step was the Achievements page and it announced new IDs
PageAnnounced ==
    /\ result.op = "achievements_page"
    /\ ~result.outcome.raised
    /\ (result.outcome.value.new_achievements # <<>>
        \/ result.outcome.value.new_milestones # <<>>)

\* C28: unlocked achievements and milestones are persisted.  After the
\* Achievements page stored newly unlocked IDs in the session and called
\* save_session_to_file, the user's file contains the unlocked achievements
\* and milestones; after load_session_from_file into a fresh session the
\* unlocked set is restored; and update_user_achievements never announces
\* an ID that was announced before.
C28_UnlockedPersisted ==
    /\ PageAnnounced =>
           /\ earlier.exists /\ earlier.readable
           /\ Get(earlier.data, "achievements", <<>>) = user_data.achievements
           /\ Get(earlier.data, "milestones", <<>>) = user_data.milestones
    /\ (result.op = "load_session_from_file" /\ result.outcome.value) =>
           result.announced \subseteq Unlocked(user_data)
    /\ PageAnnounced =>
           (Range(result.outcome.value.new_achievements)
            \cup Range(result.outcome.value.new_milestones)) \cap result.announced = {}

\* The file was written without the unlocked IDs of the session
C28_SavedWithoutUnlocked ==
    /\ PageAnnounced
    /\ earlier.readable
    /\ "achievements" \notin DOMAIN earlier.data
    /\ "milestones" \notin DOMAIN earlier.data

\* An ID is announced a second time after the file was loaded
C28_AnnouncedAgain ==
    /\ PageAnnounced
    /\ Range(result.outcome.value.new_achievements) \cap result.announced # {}

\* The save left a file that cannot be read back
C28_FileUnreadable == earlier.exists /\ ~earlier.readable

----------------------------------------------------------------------------
(* Properties of the display data of update_user_achievements *)

\* The lists as they were before the call: what precedes the new IDs
AchievementsBefore ==
    SubSeq(user_data.achievements, 1,
           Len(user_data.achievements) - Len(Value.new_achievements))

MilestonesBefore ==
    SubSeq(user_data.milestones, 1,
           Len(user_data.milestones) - Len(Value.new_milestones))

\* The points of the IDs the call returned
PointsOfNew ==
    SumSeq([i \in 1..Len(Value.new_achievements) |->
               AchievementDef(Value.new_achievements[i]).points])
    + SumSeq([i \in 1..Len(Value.new_milestones) |->
                 MilestoneDef(Value.new_milestones[i]).rewards.points])

\* The IDs of next_achievements
NextIds ==
    {Value.display_data.next_achievements[i].id :
        i \in 1..Len(Value.display_data.next_achievements)}

\* C29: in the display_data returned by update_user_achievements,
\* total_points includes the points of every ID in new_achievements and
\* new_milestones, and every next_achievements entry has progress strictly
\* below 100: an achievement whose progress score is 100 has a true unlock
\* predicate and is in the unlocked list.
C29_DisplayAfterAppend ==
    ReturnedFrom("update_user_achievements") =>
        /\ Value.display_data.total_points
               = achievement_points(AchievementsBefore)
                 + milestone_points(MilestonesBefore) + PointsOfNew
        /\ \A i \in 1..Len(Value.display_data.next_achievements) :
               FracLess(Value.display_data.next_achievements[i].progress, <<100, 1>>)
        /\ \A id \in Range(AchievementIds) :
               FracEq(_calculate_achievement_progress(id, user_data), <<100, 1>>)
                   => /\ _check_achievement_criteria(id, user_data)
                      /\ InList(id, user_data.achievements)
                      /\ id \notin NextIds

\* A call that earned achievements with points (one of them with a progress
\* score, which is 100 now) and a milestone, and still shows achievements
\* on the way
C29_Witness ==
    /\ ReturnedFrom("update_user_achievements")
    /\ InList("courses_5", Value.new_achievements)
    /\ Value.new_milestones # <<>>
    /\ PointsOfNew > 0
    /\ "courses_10" \in NextIds

----------------------------------------------------------------------------
(* Properties of two predictions that differ in one input *)

\* Two calls were made and their arguments differ in the given one only
DifferIn(field) ==
    /\ earlier.called
    /\ prediction.called
    /\ earlier.args[field] # prediction.args[field]
    /\ \A f \in DOMAIN earlier.args \ {field} : earlier.args[f] = prediction.args[f]

\* The latest call has one known interest more than the call before it
InterestAdded ==
    /\ DifferIn("interests")
    /\ \E k \in Range(KnownInterests), pos \in 0..Len(earlier.args.interests) :
           prediction.args.interests = InsertAt(earlier.args.interests, pos, k)

\* C30: with all other inputs fixed, predicted_salary is strictly
\* increasing along the experience tiers Beginner < Intermediate < Advanced
\* and along the education levels High School < Diploma < Bachelor's <
\* Master's < PhD, and it never decreases when a known interest is added to
\* the interests list.
C30_SalaryMonotone ==
    /\ (DifferIn("experience")
        /\ PlaceOf(Experiences, earlier.args.experience)
               < PlaceOf(Experiences, prediction.args.experience))
          => earlier.value.predicted_salary < prediction.value.predicted_salary
    /\ (DifferIn("education")
        /\ PlaceOf(Educations, earlier.args.education)
               < PlaceOf(Educations, prediction.args.education))
          => earlier.value.predicted_salary < prediction.value.predicted_salary
    /\ InterestAdded
          => earlier.value.predicted_salary <= prediction.value.predicted_salary

\* An interest added below the cap raises the salary
C30_Witness ==
    /\ InterestAdded
    /\ earlier.args.interests = <<"Machine Learning", "Data Science">>
    /\ earlier.value.predicted_salary < prediction.value.predicted_salary

\* An interest added at the cap leaves the salary as it was
C30_WitnessCapped ==
    /\ InterestAdded
    /\ earlier.args.interests = <<"Robotics", "Deep Learning">>
    /\ earlier.value.predicted_salary = prediction.value.predicted_salary

C30_WitnessExperience ==
    /\ DifferIn("experience")
    /\ prediction.args.experience = "Advanced (5+ years)"
    /\ earlier.value.predicted_salary < prediction.value.predicted_salary

C30_WitnessEducation ==
    /\ DifferIn("education")
    /\ earlier.args.education = "High School"
    /\ prediction.args.location = "Tier 2 Cities"
    /\ prediction.args.company_size = "Startup (1-50)"
    /\ earlier.value.predicted_salary < prediction.value.predicted_salary

====
